---- MODULE Spec2Model ----
(***************************************************************************)
(* The agent execution loop of the Reflex Coder dashboard                  *)
(* (src/src/components/AgentDashboard.tsx, component AgentDashboard):      *)
(* runAgent, callLLMAPI, processAgentResponse, executeToolCall, the        *)
(* verification step, the failure summary and the attempt statistics.      *)
(*                                                                         *)
(* One action is one synchronous segment of the JavaScript code: the code  *)
(* between two awaits runs without interleaving, so an action starts where *)
(* a promise settles (or the user clicks) and ends at the next await.      *)
(***************************************************************************)
EXTENDS Integers, Sequences, FiniteSets, TLC

\* ------------------------------------------------------------------ bounds
\* Runs (episodes) that may be started.
MaxEpisodes == 2
\* maxAttempts is a JavaScript number: the input handler clamps it to [1, 10]
\* and does not round it, so it is kept here in units of 1/Scale.
Scale == 2
\* Largest number typed into the "Max attempts" input, in units of 1/Scale.
MaxTyped == 3
\* Longest batch of tool calls of the tool-dispatch specification.
MaxBatch == 2
\* Most verified successes a session has had before the run observed by the
\* training-progress specification.
MaxSuccesses == 11

\* ------------------------------------------------------- program constants
\* truncate(..., 4000): the cap of the failure summary.
Cap == 4000
\* Math.max(1, ...) and Math.min(10, ...) of the "Max attempts" input.
MinAttempts == 1
MaxAttemptsLimit == 10
\* useState(3): the initial attempt budget.
InitialMaxAttempts == 3
\* Math.min(prev + 10, 100)
ProgressStep == 10
ProgressMax == 100

\* ----------------------------------------------------------------- strings
\* A string is a sequence of chunks; a chunk is n characters of one origin:
\* k is what the text is ("out" stdout, "err" stderr, "error" the reply's error
\* field, "nl" the newline of the template, "strict" the strict-mode message,
\* "marker" the truncation marker), r and a are the run and the attempt that
\* produced it.
Chunk(k, r, a, n) == IF n = 0 THEN <<>> ELSE <<[k |-> k, r |-> r, a |-> a, n |-> n]>>

\* s.length
RECURSIVE StrLen(_)
StrLen(s) == IF s = <<>> THEN 0 ELSE Head(s).n + StrLen(Tail(s))

\* s.slice(0, n)
RECURSIVE slice(_, _)
slice(s, n) ==
  IF s = <<>> \/ n <= 0 THEN <<>>
  ELSE IF Head(s).n <= n THEN <<Head(s)>> \o slice(Tail(s), n - Head(s).n)
  ELSE <<[Head(s) EXCEPT !.n = n]>>

\* '\n...'
Marker == <<[k |-> "marker", r |-> 0, a |-> 0, n |-> 4]>>

\* A faulty variant: the text is cut without a marker.
truncateSilently(s, n) == slice(s, n)
\* const truncate = (s, n) => (s.length > n ? s.slice(0, n) + '\n...' : s)
truncate(s, n) == IF StrLen(s) > n THEN slice(s, n) \o Marker ELSE s

\* `Strict mode: ${proc.message || 'Expected JSON tool calls only.'}` with
\* proc.message = 'No valid JSON tool calls found.' (13 + 31 characters).
StrictMessage(r, a) == Chunk("strict", r, a, 44)

\* ------------------------------------------------------------- tool calls
ToolNames == {"read_file", "list_files", "make_dir", "write_file", "move_path",
              "delete_path", "run_shell", "git_commit", "test_runner"}
Params == {"path", "content", "from", "to", "cmd", "msg"}

\* A parsed tool call: the tool name and, for each parameter, whether the
\* object carries it: "missing" (absent), "" (the empty string) or "text".
Call(t, given, empties) ==
  [tool |-> t,
   args |-> [p \in Params |-> IF p \in given THEN "text"
                              ELSE IF p \in empties THEN "" ELSE "missing"]]

\* A faulty variant: a parameter is tested for presence, not for truthiness.
TruthyPresent(v) == v # "missing"
\* JavaScript truthiness of a parameter value.
Truthy(v) == v = "text"

\* A faulty variant: no case tests its parameters.
RequiredNone(t) == {}
\* The parameters each case of executeToolCall tests before it calls out.
Required(t) ==
  CASE t = "write_file"  -> {"path", "content"}
    [] t = "read_file"   -> {"path"}
    [] t = "delete_path" -> {"path"}
    [] t = "make_dir"    -> {"path"}
    [] t = "move_path"   -> {"from", "to"}
    [] t = "run_shell"   -> {"cmd"}
    [] t = "git_commit"  -> {"msg"}
    [] OTHER             -> {}

\* What a collaborator request can come back with: a reply with success true,
\* a reply with success false, a non-OK HTTP status, a rejected fetch, a body
\* that res.json() cannot parse.

\* A faulty variant: the fetch of a case sits outside its try block.
ToolFailureEscapesNetwork(reply) == reply = "networkError"
\* Whether the failure of a collaborator request escapes the case's try/catch.
\* Every fetch of executeToolCall sits inside try { ... } catch (e) { addLog }.
ToolFailureEscapes(reply) == FALSE

\* A faulty variant: the switch has no default case and an unrecognised tool
\* falls into the last case.
executeToolCallNoDefault(call, reply) ==
  IF \E p \in Required(call.tool) : ~Truthy(call.args[p]) THEN "skipped"
  ELSE IF reply = "ok" THEN "done"
  ELSE IF ToolFailureEscapes(reply) THEN "raise"
  ELSE "failed"
\* executeToolCall(toolCall) with the collaborator answering `reply`:
\* "unknown" (default case), "skipped" (a required parameter is falsy: no
\* request), "done", "failed" (request made, failure logged), or "raise".
executeToolCall(call, reply) ==
  IF call.tool \notin ToolNames THEN "unknown"
  ELSE IF \E p \in Required(call.tool) : ~Truthy(call.args[p]) THEN "skipped"
  ELSE IF reply = "ok" THEN "done"
  ELSE IF ToolFailureEscapes(reply) THEN "raise"
  ELSE "failed"

\* Whether executeToolCall issued a collaborator request.
MadeRequest(result) == result \in {"done", "failed", "raise"}

\* ---------------------------------------------------------- model responses
\* The text of a response is a sequence of tokens: a fence (three backticks),
\* a run of word characters, white space, a brace, and inside a JSON object
\* the member "tool":"<name>", a member "<p>":"<string>" (v is "text" or "",
\* the string holds no brace), a member "<p>":"<string with a closing brace>",
\* and the key "<p>": of a member whose value is the object that follows.
Tok(t, v) == [t |-> t, v |-> v]
Fence == Tok("fence", "")
Word(w) == Tok("word", w)
NL == Tok("nl", "")
Open == Tok("{", "")
Close == Tok("}", "")
ToolMember(name) == Tok("tool", name)
Member(p, v) == Tok("member", <<p, v>>)
Key(p) == Tok("key", p)

IsFence(tok) == tok.t = "fence"
IsOpen(tok) == tok.t = "{"
IsSpace(tok) == tok.t = "nl"

\* The index of the first token of ts that satisfies P, 0 when there is none.
FirstIdx(ts, P(_)) ==
  IF \E i \in 1..Len(ts) : P(ts[i])
  THEN CHOOSE i \in 1..Len(ts) : P(ts[i]) /\ \A j \in 1..(i - 1) : ~P(ts[j])
  ELSE 0
From(ts, i) == SubSeq(ts, i, Len(ts))

\* String.prototype.trim()
RECURSIVE TrimLeft(_)
TrimLeft(ts) == IF ts # <<>> /\ IsSpace(Head(ts)) THEN TrimLeft(Tail(ts)) ELSE ts
RECURSIVE TrimRight(_)
TrimRight(ts) ==
  IF ts # <<>> /\ IsSpace(ts[Len(ts)]) THEN TrimRight(SubSeq(ts, 1, Len(ts) - 1))
  ELSE ts
TrimText(ts) == TrimRight(TrimLeft(ts))

\* extractCodeBlocks: /```(\w+)?\n?([\s\S]*?)```/g. From the first fence, the
\* word that follows it at once is the language ('text' without one), the
\* block ends at the next fence, and its code is trimmed; the scan goes on
\* after the closing fence. A fence without a closing one opens no block.
RECURSIVE extractCodeBlocks(_)
extractCodeBlocks(text) ==
  LET i == FirstIdx(text, IsFence) IN
  IF i = 0 THEN <<>>
  ELSE LET after == From(text, i + 1)
           tagged == after # <<>> /\ Head(after).t = "word"
           body == IF tagged THEN Tail(after) ELSE after
           j == FirstIdx(body, IsFence)
       IN IF j = 0 THEN <<>>
          ELSE <<[language |-> IF tagged THEN Head(after).v ELSE "text",
                  code |-> TrimText(SubSeq(body, 1, j - 1))]>>
               \o extractCodeBlocks(From(body, j + 1))

\* JSON.parse of an object: the value of its "tool" member and of each
\* parameter ("missing", "" or "text"; an object value is truthy), or a failure.
NoCall == Call("", {}, {})
Unparsable == [ok |-> FALSE, rest |-> <<>>, call |-> NoCall]
RECURSIVE ParseObject(_), ParseMembers(_, _)
ParseObject(ts) ==
  IF ts # <<>> /\ IsOpen(Head(ts)) THEN ParseMembers(Tail(ts), NoCall)
  ELSE Unparsable
ParseMembers(ts, call) ==
  IF ts = <<>> THEN Unparsable
  ELSE LET h == Head(ts)
           Put(p, v) == IF p \in Params
                        THEN [call EXCEPT !.args = [@ EXCEPT ![p] = v]]
                        ELSE call
       IN CASE h.t = "}" -> [ok |-> TRUE, rest |-> Tail(ts), call |-> call]
            [] h.t = "tool" -> ParseMembers(Tail(ts), [call EXCEPT !.tool = h.v])
            [] h.t \in {"member", "braceMember"} ->
                 ParseMembers(Tail(ts), Put(h.v[1], h.v[2]))
            [] h.t = "key" ->
                 LET inner == ParseObject(Tail(ts)) IN
                 IF inner.ok THEN ParseMembers(inner.rest, Put(h.v, "text"))
                 ELSE Unparsable
            [] OTHER -> Unparsable
\* JSON.parse(text): white space between the tokens is allowed, anything after
\* the object is not.
JSONParse(text) ==
  LET r == ParseObject(SelectSeq(text, LAMBDA tok : ~IsSpace(tok))) IN
  IF r.ok /\ r.rest = <<>> THEN r ELSE Unparsable

\* if (m.includes('"tool"')) { try { toolCalls.push(JSON.parse(m)) } catch {} }
ParsedIfTool(text) ==
  IF (\E i \in 1..Len(text) : text[i].t = "tool") /\ JSONParse(text).ok
  THEN <<JSONParse(text).call>> ELSE <<>>

RECURSIVE FencedCalls(_)
FencedCalls(blocks) ==
  IF blocks = <<>> THEN <<>>
  ELSE LET content == TrimText(Head(blocks).code) IN
       (IF content # <<>> /\ IsOpen(Head(content)) THEN ParsedIfTool(content)
        ELSE <<>>)
       \o FencedCalls(Tail(blocks))
\* A faulty variant: only the first fenced block is looked at.
FencedPassFirstOnly(text) ==
  IF extractCodeBlocks(text) = <<>> THEN <<>>
  ELSE FencedCalls(<<Head(extractCodeBlocks(text))>>)
\* The first pass of processAgentResponse: the fenced blocks whose content
\* starts with { and contains "tool" and parses.
FencedPass(text) == FencedCalls(extractCodeBlocks(text))

\* response.match(/\{[\s\S]*?\}/g): from the first opening brace to the first
\* closing brace after it, then on from there.
RECURSIVE InlineMatches(_)
InlineMatches(text) ==
  LET i == FirstIdx(text, IsOpen) IN
  IF i = 0 THEN <<>>
  ELSE LET after == From(text, i + 1)
           j == FirstIdx(after, LAMBDA tok : tok.t \in {"}", "braceMember"})
       IN IF j = 0 THEN <<>>
          ELSE << <<text[i]>> \o SubSeq(after, 1, j - 1)
                  \o <<IF after[j].t = "}" THEN after[j] ELSE Tok("cut", "")>> >>
               \o InlineMatches(From(after, j + 1))
RECURSIVE InlineCalls(_)
InlineCalls(matches) ==
  IF matches = <<>> THEN <<>>
  ELSE ParsedIfTool(Head(matches)) \o InlineCalls(Tail(matches))
\* The second pass: each match kept when it contains "tool" and parses.
InlinePass(text) == InlineCalls(InlineMatches(text))

\* A faulty variant: the inline pass runs whatever the fenced pass found.
extractToolCallsBoth(text) == FencedPass(text) \o InlinePass(text)
\* let toolCalls = ...; if (toolCalls.length === 0) { inline pass }
extractToolCalls(text) ==
  IF FencedPass(text) # <<>> THEN FencedPass(text) ELSE InlinePass(text)

\* A faulty variant: every generated file is a .txt file.
ExtensionTxt(language) == "txt"
\* block.language === 'rust' ? .rs : 'javascript' ? .js : 'python' ? .py : .txt
Extension(language) ==
  CASE language = "rust"       -> "rs"
    [] language = "javascript" -> "js"
    [] language = "python"     -> "py"
    [] OTHER                   -> "txt"
\* The code-generation path: codeBlocks.forEach((block, index) => ...) names
\* block index + 1 `src/generated_${index + 1}.<extension>`.
GeneratedFiles(text) ==
  LET blocks == extractCodeBlocks(text) IN
  [k \in 1..Len(blocks) |-> [n |-> k, ext |-> Extension(blocks[k].language)]]

\* The pieces responses are written from. A piece is its text and what it
\* is: a fenced block holding a well-formed object with a "tool" key
\* ("fencedTool", with the object), a fenced block that starts with { and
\* contains "tool" but does not parse ("fencedBad"), a fenced block of code
\* ("fencedCode", with its language tag), a loose object with a "tool" key
\* outside any fence ("inlineTool", with the object), a loose object without
\* one ("inlineOther"), or prose.
Seg(k, lang, call, text) == [k |-> k, lang |-> lang, call |-> call, text |-> text]
Object(members) == <<Open>> \o members \o <<Close>>
Fenced(tag, body) == <<Fence, Word(tag), NL>> \o body \o <<NL, Fence>>
Prose == Seg("prose", "", NoCall, <<Word("done")>>)
WriteFileText == Object(<<ToolMember("write_file"), Member("path", "text"),
                          Tok("braceMember", <<"content", "text">>)>>)
MoveNestedText == Object(<<ToolMember("move_path"), Key("from")>>
                         \o Object(<<Member("path", "text")>>)
                         \o <<Member("to", "text")>>)
FencedWrite == Seg("fencedTool", "json", Call("write_file", {"path", "content"}, {}),
                   Fenced("json", WriteFileText))
FencedWriteEmpty == Seg("fencedTool", "json", Call("write_file", {"path"}, {"content"}),
                        Fenced("json", Object(<<ToolMember("write_file"),
                                                 Member("path", "text"),
                                                 Member("content", "")>>)))
FencedShell == Seg("fencedTool", "json", Call("run_shell", {"cmd"}, {}),
                   Fenced("json", Object(<<ToolMember("run_shell"),
                                            Member("cmd", "text")>>)))
FencedBad == Seg("fencedBad", "json", NoCall, 
                 Fenced("json", <<Open, ToolMember("read_file"), Word("oops"), Close>>))
InlineRead == Seg("inlineTool", "", Call("read_file", {"path"}, {}),
                  Object(<<ToolMember("read_file"), Member("path", "text")>>))
InlineUnknown == Seg("inlineTool", "", Call("format_disk", {"path"}, {}),
                     Object(<<ToolMember("format_disk"), Member("path", "text")>>))
RustCode == Seg("fencedCode", "rust", NoCall, Fenced("rust", <<Word("fn")>>))

\* The text of a response: its pieces, white space between them.
RECURSIVE Text(_)
Text(segs) ==
  IF segs = <<>> THEN <<>>
  ELSE Head(segs).text \o (IF Tail(segs) = <<>> THEN <<>> ELSE <<NL>>)
       \o Text(Tail(segs))

\* What callLLMAPI can come back with: it throws (provider not found, API key
\* missing, unsupported provider, fetch rejected, non-OK status), or returns
\* the text ('' when the reply carries no content).
Responses ==
  { <<>>,
    <<FencedWrite, FencedShell>>,
    <<Prose, FencedBad, FencedWriteEmpty, InlineRead>>,
    <<Prose, InlineUnknown>>,
    <<RustCode, Prose>>,
    <<Prose>> }

\* ------------------------------------------------------------- verification
\* What postJSON('/api/shell', ...) can come back with: fetch rejects
\* (thrown), or an object { status, ok, ...data } where data is {} when the
\* body does not parse. out, err and error are the lengths of the stdout,
\* stderr and error fields (0: absent or empty).
Reply(success, out, err, error) ==
  [thrown |-> FALSE, success |-> success, out |-> out, err |-> err, error |-> error]
\* What fetch('/api/shell', ...) settles with: it rejects (network failure), or
\* a response with res.ok and a body that parses as JSON or does not (the
\* 'Method Not Allowed' text, a proxy's error page). The dev server answers
\* 200 { success: true, stdout, stderr } or 400 { success: false, error }.
Http(ok, parses, success, out, err, error) ==
  [rejects |-> FALSE, ok |-> ok, parses |-> parses, success |-> success,
   out |-> out, err |-> err, error |-> error]
ShellResponses ==
  { [rejects |-> TRUE, ok |-> FALSE, parses |-> FALSE, success |-> FALSE,
     out |-> 0, err |-> 0, error |-> 0],
    Http(TRUE, TRUE, TRUE, 2, 0, 0),
    Http(TRUE, FALSE, FALSE, 0, 0, 0),
    Http(FALSE, FALSE, FALSE, 0, 0, 0),
    Http(FALSE, TRUE, FALSE, 0, 0, 0),
    Http(FALSE, TRUE, FALSE, Cap - 6, 5, 0),
    Http(FALSE, TRUE, FALSE, Cap - 5, 0, 5) }

\* A faulty variant: a body that does not parse makes the request throw.
postJSONStrict(h) ==
  IF h.rejects \/ ~h.parses
  THEN [thrown |-> TRUE, success |-> FALSE, out |-> 0, err |-> 0, error |-> 0]
  ELSE Reply(h.success, h.out, h.err, h.error)
\* const res = await fetch(...); const data = await res.json().catch(() => ({}));
\* return { status: res.status, ok: res.ok, ...data }
postJSON(h) ==
  IF h.rejects
  THEN [thrown |-> TRUE, success |-> FALSE, out |-> 0, err |-> 0, error |-> 0]
  ELSE IF ~h.parses THEN Reply(FALSE, 0, 0, 0)
  ELSE Reply(h.success, h.out, h.err, h.error)

VerifyReplies == {postJSON(h) : h \in ShellResponses}

\* A faulty variant: any reply object counts as a success (!!res).
VerifySuccessAnyReply(res) == TRUE
\* const success = !!res.success
VerifySuccess(res) == res.success
\* const stderr = res.stderr || res.error || ''
StderrOf(res, r, a) ==
  IF res.err > 0 THEN Chunk("err", r, a, res.err) ELSE Chunk("error", r, a, res.error)

\* `${stdout}\n${stderr}`, with stdout = res.stdout || ''
VerifyFailureText(res, r, a) ==
  Chunk("out", r, a, res.out) \o Chunk("nl", r, a, 1) \o StderrOf(res, r, a)
\* lastFailureSummary = truncate(`${stdout}\n${stderr}`, 4000)
VerifyFailureSummary(res, r, a) == truncate(VerifyFailureText(res, r, a), Cap)
\* lastFailureSummary = truncate(`Strict mode: ${proc.message || ...}`, 4000)
StrictFailureSummary(r, a) == truncate(StrictMessage(r, a), Cap)

\* What the verification request came back with, as the run's record keeps it.
Verdict(res) == IF res.thrown THEN "thrown" ELSE IF res.success THEN "pass" ELSE "fail"

\* A faulty variant: the verification step runs whatever verifyCmd is.
HasVerifyAlways(cmd) == TRUE
\* A faulty variant: the verification block is never entered.
HasVerifyNever(cmd) == FALSE
\* if (verifyCmd) { ... } else { ... break }
HasVerify(cmd) == cmd # ""

\* ------------------------------------------------------------- agent state
\* A field the state object does not hold: the initial agentState (660-668)
\* has no successCount.
Undefined == -1
\* A faulty variant: the absent count is not read as 0.
OrZeroKeeps(v) == v
\* (prev.successCount || 0)
OrZero(v) == IF v = Undefined THEN 0 ELSE v

\* ------------------------------------------------------------ user settings
\* A faulty variant: runAgent does not test the model selection.
RejectedBlankOnly(cmd, models) == cmd \in {"", " "}
\* The early returns of runAgent: `if (!command.trim()) return;` and the
\* 'No Model Selected' return when no provider has a model selected.
Rejected(cmd, models) == cmd \in {"", " "} \/ models = "none"
\* verificationCmd.trim()
Trim(s) == IF s = " " THEN "" ELSE s

\* What the two reads of autoDetectVerificationCmd can come back with.
PkgReplies == {"thrown", "failed", "unparsable", "test", "testAndBuild", "build", "noScripts"}
TscReplies == {"thrown", "failed", "ok"}

\* A faulty variant: the build script is looked for before the test script.
autoDetectBuildFirst(pkg, tsc) ==
  IF pkg \in {"thrown", "unparsable"} THEN ""
  ELSE IF pkg \in {"build", "testAndBuild"} THEN "npm run build"
  ELSE IF pkg = "test" THEN "npm test --silent"
  ELSE IF tsc = "ok" THEN "npx tsc -noEmit"
  ELSE ""
\* A faulty variant: a package.json that does not parse is passed over and
\* the tsconfig.json read decides.
autoDetectParseGuarded(pkg, tsc) ==
  IF pkg = "thrown" THEN ""
  ELSE IF pkg \in {"test", "testAndBuild"} THEN "npm test --silent"
  ELSE IF pkg = "build" THEN "npm run build"
  ELSE IF tsc = "ok" THEN "npx tsc -noEmit"
  ELSE ""
autoDetectVerificationCmd(pkg, tsc) ==
  IF pkg \in {"thrown", "unparsable"} THEN ""
  ELSE IF pkg \in {"test", "testAndBuild"} THEN "npm test --silent"
  ELSE IF pkg = "build" THEN "npm run build"
  ELSE IF tsc = "ok" THEN "npx tsc -noEmit"
  ELSE ""


\* useState('./workspace')
InitialWorkspace == "./workspace"

Min(a, b) == IF a <= b THEN a ELSE b
\* Math.max(1, Math.min(10, Number(e.target.value) || 1)), typed in 1/Scale.
ClampMaxAttempts(typed) ==
  LET least == MinAttempts * Scale
      capped == Min(MaxAttemptsLimit * Scale, IF typed = 0 THEN 1 * Scale ELSE typed)
  IN IF least >= capped THEN least ELSE capped

\* A faulty variant: the budget test is off by one (attempt > maxAttempts).
\* A second one: the loop gives up one attempt early.
ShouldStopEarly(auto, att, max) == ~auto \/ (att + 1) * Scale >= max
ShouldStopLate(auto, att, max) == ~auto \/ att * Scale > max
\* if (!autoContinue || attempt >= maxAttempts) break;   (max in 1/Scale)
ShouldStop(auto, att, max) == ~auto \/ att * Scale >= max

\* A faulty variant: a verified success is counted as a success only.
recordAttemptSuccessOnly(st, success) ==
  [totalAttempts |-> st.totalAttempts + (IF success THEN 0 ELSE 1),
   totalSuccesses |-> st.totalSuccesses + (IF success THEN 1 ELSE 0)]
\* A faulty variant: an attempt is counted twice.
recordAttemptTwice(st, success) ==
  [totalAttempts |-> st.totalAttempts + 2,
   totalSuccesses |-> st.totalSuccesses + (IF success THEN 1 ELSE 0)]
\* A faulty variant: a passed verification is not counted as a success.
recordAttemptNoSuccess(st, success) ==
  [totalAttempts |-> st.totalAttempts + 1, totalSuccesses |-> st.totalSuccesses]
\* setStats(prev => ({ ...prev, totalAttempts: prev.totalAttempts + 1,
\*                     totalSuccesses: prev.totalSuccesses + (success ? 1 : 0) }))
recordAttempt(st, success) ==
  [totalAttempts |-> st.totalAttempts + 1,
   totalSuccesses |-> st.totalSuccesses + (IF success THEN 1 ELSE 0)]

\* A faulty variant: the meter does not saturate.
updateTrainingProgressUnbounded(p) == p + ProgressStep
\* setTrainingProgress(prev => Math.min(prev + 10, 100))
updateTrainingProgress(p) == Min(p + ProgressStep, ProgressMax)

\* ------------------------------------------------------------------- state
VARIABLES
  \* React state of the component
  agentState,        \* [status, attempts, reward, successCount, episode]
  isRunning,
  trainingProgress,
  autoContinue,
  maxAttempts,       \* in units of 1/Scale
  strictMode,
  verificationCmd,
  workspaceFolder,
  stats,             \* [totalAttempts, totalSuccesses]
  attemptHistory,    \* sequence of [attempt, success]
  \* the invocation of runAgent
  pc,                \* "idle", the await the run is suspended at, or "done"
  cfg,               \* the settings the invocation closed over
  verifyCmd,
  attempt,
  solved,
  lastFailureSummary,
  \* the invocation of processAgentResponse of the current attempt
  toolCalls,         \* the batch it extracted
  toolIdx,           \* how many calls of the batch executeToolCall was given
  procOk,            \* its result: "none" (not returned), "ok", "fail"
  nCollab,           \* collaborator requests its tool calls made
  nFailed,           \* tool failures it logged
  nUnknown,          \* 'Unknown tool' entries it logged
  \* what the run did, for the properties
  prompt,            \* [attempt, ctx]: the failure context of the last prompt
  failureText,       \* the untruncated failure text of the attempt before
  verdicts,          \* the run's verifications: [attempt, result]
  lastLLM,           \* what the last callLLMAPI came back with
  nModel,            \* callLLMAPI invocations of the run
  nVerify,           \* verification requests of the run
  nInvalid,          \* attempts of the run found structurally invalid
  nToolless,         \* responses of the run that held no tool call
  exit,              \* how the run left the loop
  added,             \* what the run added to stats
  rewardAtStart,
  trail,             \* the statuses the last step of a run assigned, in order
  active,            \* invocations of runAgent that have not returned
  issued,            \* the calls of the batch given to executeToolCall so far
  cwds,              \* the cwd values the collaborator requests of the run carried
  probe,             \* the replies to the reads of autoDetectVerificationCmd that
                     \* have arrived and wait for the run to resume: <<>> or <<[pkg, tsc]>>
  \* the model and processAgentResponse
  pending,           \* the reply of the model that has arrived and waits for the
                     \* run to resume: <<>> or <<r>>
  response,          \* the text processAgentResponse was last given, as pieces
  extracted,         \* the tool calls it extracted from that text
  generatedFiles,    \* the files its code-generation path named: [n, ext]
  \* FileUtilities (tools/file-utilities.js)
  edit,              \* the invocation of editFile, the target file and its backup
  \* the session
  savedStats,        \* the stats the mount effect restored from localStorage
  \* the command card
  command,           \* the text of the command input
  selectedModels,    \* "model" when a provider has a model selected, else "none"
  toasts,            \* 'No Model Selected' toasts shown
  \* the dev server (vite.config.ts)
  server             \* the /api/files/write handler and the file it writes

settings == <<autoContinue, maxAttempts, strictMode, verificationCmd, workspaceFolder>>
ledger == <<stats, attemptHistory, added>>
batch == <<toolCalls, toolIdx, procOk, nCollab, nFailed, nUnknown>>
loop == <<pc, agentState, isRunning, trainingProgress, attempt, solved,
          lastFailureSummary, prompt, failureText, nModel, nVerify, nInvalid, exit>>
ghost == <<lastLLM, nToolless, rewardAtStart>>
trace == <<trail, active, issued, cwds>>
parse == <<response, extracted, generatedFiles>>
form == <<command, selectedModels, toasts>>
vars == <<settings, ledger, batch, loop, cfg, verifyCmd, verdicts, ghost, trace, pending,
          parse, probe, edit, savedStats, form,
          server>>

NoStats == [totalAttempts |-> 0, totalSuccesses |-> 0]
\* No invocation of editFile: the target file holds its content ("old"), no
\* backup file exists.
NoEdit == [pc |-> "idle", options |-> [backup |-> TRUE, keepBackup |-> FALSE,
                                         validator |-> FALSE], target |-> "old", backup |-> "none",
           newContent |-> "none"]
\* The /api/files/write handler with no request in hand; the file at the
\* target path holds `file` ("none": it does not exist).
NoRequest(file) ==
  [pc |-> "idle", file |-> file, before |-> file, path |-> FALSE,
   content |-> "missing", overwrite |-> FALSE, reply |-> "none"]
NoPrompt == [attempt |-> 0, ctx |-> <<>>]

\* The state of the component after its construction, with a command typed
\* and a model selected; no invocation of runAgent exists yet.
Init ==
  /\ agentState = [status |-> "idle", attempts |-> 0, reward |-> 0,
                   successCount |-> Undefined, episode |-> 1]
  /\ isRunning = FALSE
  /\ trainingProgress = 0
  /\ autoContinue = TRUE
  /\ maxAttempts = InitialMaxAttempts * Scale
  /\ strictMode = TRUE
  /\ verificationCmd = ""
  /\ workspaceFolder = InitialWorkspace
  /\ stats = NoStats
  /\ attemptHistory = <<>>
  /\ pc = "idle"
  /\ cfg = [autoContinue |-> TRUE, maxAttempts |-> InitialMaxAttempts * Scale,
            strictMode |-> TRUE, workspaceFolder |-> InitialWorkspace]
  /\ verifyCmd = ""
  /\ attempt = 0
  /\ solved = FALSE
  /\ lastFailureSummary = <<>>
  /\ toolCalls = <<>>
  /\ toolIdx = 0
  /\ procOk = "none"
  /\ nCollab = 0
  /\ nFailed = 0
  /\ nUnknown = 0
  /\ prompt = NoPrompt
  /\ failureText = <<>>
  /\ verdicts = <<>>
  /\ lastLLM = "none"
  /\ nModel = 0
  /\ nVerify = 0
  /\ nInvalid = 0
  /\ nToolless = 0
  /\ exit = "none"
  /\ added = NoStats
  /\ rewardAtStart = 0
  /\ trail = <<>>
  /\ active = 0
  /\ issued = <<>>
  /\ cwds = {}
  /\ pending = <<>>
  /\ probe = <<>>
  /\ response = <<>>
  /\ extracted = <<>>
  /\ generatedFiles = <<>>
  /\ edit = NoEdit
  /\ savedStats = NoStats
  /\ command = "task"
  /\ selectedModels = "model"
  /\ toasts = 0
  /\ server = NoRequest("none")

\* ----------------------------------------------- fragments of runAgent's loop
\* Each fragment gives the next value of every variable of `loop`.

\* The record of the attempt's processAgentResponse: kept while the attempt
\* lasts, dropped when the next attempt starts or the run ends.
SetBatch(calls, idx, ok, collab, failed) ==
  IF pc' \in {"llm", "done"}
  THEN toolCalls' = <<>> /\ toolIdx' = 0 /\ procOk' = "none"
       /\ nCollab' = 0 /\ nFailed' = 0
  ELSE toolCalls' = calls /\ toolIdx' = idx /\ procOk' = ok
       /\ nCollab' = collab /\ nFailed' = failed

\* A faulty variant: a request carries the workspace folder of the latest
\* render.
RequestCwdCurrent(closed, current) == current
\* cwd: workspaceFolder in the body of a request: runAgent and the functions
\* it calls are closures of the render the run was started from, and read
\* that render's workspaceFolder.
RequestCwd(closed, current) == closed
\* The requests a step of the run issues: `made` when it issues one to a tool
\* collaborator or an auto-detection read; the verification request when the
\* step reaches `await postJSON('/api/shell', ...)`.
SetCwds(made) ==
  cwds' = cwds \cup (IF made \/ nVerify' > nVerify
                      THEN {RequestCwd(cfg.workspaceFolder, workspaceFolder)}
                      ELSE {})

\* The 'Unknown tool' entries of the attempt's processAgentResponse, kept and
\* dropped as the rest of its record.
SetUnknown(n) == nUnknown' = IF pc' \in {"llm", "done"} THEN 0 ELSE n

\* The statuses a step of the run assigns with setAgentState, in program
\* order: `pre` (what the action itself assigns), then what the fragment that
\* leads to pc' assigns: 'coding' at the loop head (line 765), 'verifying'
\* (799), 'training' when solved (829) and 'idle' in the finally block (850).
\* The invocation that reaches the finally block has returned.
SetTrace(pre, calls) ==
  /\ trail' = pre \o (IF pc' = "llm" THEN <<"coding">>
                       ELSE IF pc' = "verify" THEN <<"verifying">>
                       ELSE IF pc' = "done"
                            THEN (IF solved' THEN <<"training">> ELSE <<>>)
                                 \o <<"idle">>
                       ELSE <<>>)
  /\ active' = IF pc' = "done" THEN active - 1 ELSE active
  /\ issued' = IF pc' \in {"llm", "done"} THEN <<>> ELSE calls

\* A step of the run consumes the replies that had arrived; what the next
\* await settles with is open until it settles.
SetReply == pending' = <<>>
\* What `await callLLMAPI(...)` settles with: the reply that has arrived, else
\* any reply.
LLMArrivals ==
  IF pending = <<>>
  THEN {[thrown |-> TRUE, text |-> <<>>]} \cup {[thrown |-> FALSE, text |-> t] : t \in Responses}
  ELSE {pending[1]}
\* What the two reads of autoDetectVerificationCmd settle with. The
\* workspaces the runs of the model meet: a package.json with a test script
\* or none that can be read, and no tsconfig.json.
ProbeArrivals ==
  IF probe = <<>>
  THEN {[pkg |-> p, tsc |-> "failed"] : p \in {"failed", "test"}}
  ELSE {probe[1]}

\* A faulty variant: the counter is raised twice per iteration.
NextAttemptSkips(a) == a + 2
\* attempt += 1 at the head of the while loop.
NextAttempt(a) == a + 1

\* The head of the while loop up to `await callLLMAPI(...)`: attempt += 1,
\* status 'coding', the prompt built from lastFailureSummary. `invalid` is 1
\* when the attempt before was structurally invalid.
StartAttempt(text, summary, invalid) ==
  /\ attempt' = NextAttempt(attempt)
  /\ agentState' = [agentState EXCEPT !.status = "coding",
                                      !.attempts = NextAttempt(attempt)]
  /\ lastFailureSummary' = summary
  /\ failureText' = text
  /\ prompt' = [attempt |-> NextAttempt(attempt), ctx |-> summary]
  /\ nModel' = nModel + 1
  /\ nInvalid' = nInvalid + invalid
  /\ pc' = "llm"
  /\ UNCHANGED <<isRunning, trainingProgress, solved, nVerify, exit>>

\* A faulty variant: the episode counter is left alone.
NextEpisodeSkipped(e) == e
\* episode: prev.episode + 1 in the finally block.
NextEpisode(e) == e + 1
\* A faulty variant: the flag is cleared after the try block, not in finally,
\* so that a run that threw leaves it up.
RunningAfterThrow(how) == how = "fatal"
\* setIsRunning(false) in the finally block, however the run left the loop.
RunningAfter(how) == FALSE

\* Leaving the loop: `if (solved) {...} else {...}`, the catch block when the
\* run threw, then the finally block. The failure summary and the prompt are
\* dropped with the loop.
Finish(how, invalid) ==
  /\ solved' = (how = "solved")
  /\ agentState' =
       [agentState EXCEPT !.status = "idle",
                          !.episode = NextEpisode(@),
                          !.reward = IF how = "solved" THEN @ + 1 ELSE @,
                          !.successCount = IF how = "solved" THEN OrZero(@) + 1 ELSE @]
  /\ trainingProgress' = IF how = "solved"
                         THEN updateTrainingProgress(trainingProgress)
                         ELSE trainingProgress
  /\ isRunning' = RunningAfter(how)
  /\ lastFailureSummary' = <<>>
  /\ failureText' = <<>>
  /\ prompt' = NoPrompt
  /\ nInvalid' = nInvalid + invalid
  /\ exit' = how
  /\ pc' = "done"
  /\ UNCHANGED <<attempt, nModel, nVerify>>

\* `if (verifyCmd) { status 'verifying'; await postJSON('/api/shell', ...)`
StartVerify ==
  /\ agentState' = [agentState EXCEPT !.status = "verifying"]
  /\ nVerify' = nVerify + 1
  /\ pc' = "verify"
  /\ UNCHANGED <<isRunning, trainingProgress, attempt, solved, lastFailureSummary,
                 prompt, failureText, nModel, nInvalid, exit>>

\* What follows `const proc = await processAgentResponse(...)` up to the next
\* await or the end of the run.
AfterProcess(ok) ==
  IF ~ok
  THEN IF ShouldStop(cfg.autoContinue, attempt, cfg.maxAttempts)
       THEN Finish("stopped", 1)
       ELSE StartAttempt(StrictMessage(agentState.episode, attempt),
                         StrictFailureSummary(agentState.episode, attempt), 1)
  ELSE IF HasVerify(verifyCmd)
       THEN StartVerify
       ELSE Finish("noverify", 0)

\* --------------------------------------------------------------- the actions
\* A faulty variant: the button stays enabled during a run.
ExecuteNeverDisabled == FALSE
\* disabled={isRunning || !command.trim()} of the Execute button, the only
\* caller of runAgent.
ExecuteDisabled == isRunning \/ command \in {"", " "}

\* The Execute button with a model selected: runAgent up to its first await
\* (status 'thinking', then 'coding', then the loop head when no detection is
\* needed).
RunAgent ==
  /\ ~ExecuteDisabled
  /\ ~Rejected(command, selectedModels)
  /\ pc # "done"
  /\ agentState.episode <= MaxEpisodes
  /\ isRunning' = TRUE
  /\ cfg' = [autoContinue |-> autoContinue, maxAttempts |-> maxAttempts,
             strictMode |-> strictMode, workspaceFolder |-> workspaceFolder]
  /\ verifyCmd' = Trim(verificationCmd)
  /\ rewardAtStart' = agentState.reward
  /\ solved' = FALSE
  /\ lastFailureSummary' = <<>>
  /\ failureText' = <<>>
  /\ IF Trim(verificationCmd) = ""
     THEN /\ pc' = "detect"
          /\ attempt' = 0
          /\ agentState' = [agentState EXCEPT !.status = "coding", !.attempts = 0]
          /\ prompt' = NoPrompt
          /\ nModel' = 0
     ELSE /\ pc' = "llm"
          /\ attempt' = 1
          /\ agentState' = [agentState EXCEPT !.status = "coding", !.attempts = 1]
          /\ prompt' = [attempt |-> 1, ctx |-> <<>>]
          /\ nModel' = 1
  /\ trail' = IF Trim(verificationCmd) = ""
              THEN <<"thinking", "coding">>
              ELSE <<"thinking", "coding", "coding">>
  /\ active' = active + 1
  /\ issued' = <<>>
  /\ cwds' = IF pc' = "detect" THEN {RequestCwd(workspaceFolder, workspaceFolder)}
             ELSE {}
  /\ SetReply
  /\ probe' = <<>>
  /\ UNCHANGED <<settings, ledger, batch, trainingProgress, nVerify, nInvalid,
                 exit, lastLLM, nToolless, verdicts, parse>>
  /\ UNCHANGED <<edit, savedStats, form, server>>

\* `verifyCmd = await autoDetectVerificationCmd()` settles; the loop starts.
AutoDetectReturn ==
  /\ pc = "detect"
  /\ \E p \in ProbeArrivals :
       LET found == autoDetectVerificationCmd(p.pkg, p.tsc) IN
       /\ verifyCmd' = found
       /\ verificationCmd' = IF found # "" THEN found ELSE verificationCmd
       /\ cwds' = cwds \cup (IF p.pkg \in {"failed", "noScripts"}
                           THEN {RequestCwd(cfg.workspaceFolder, workspaceFolder)}
                           ELSE {})
  /\ StartAttempt(<<>>, <<>>, 0)
  /\ SetTrace(<<>>, <<>>)
  /\ SetReply
  /\ probe' = <<>>
  /\ UNCHANGED <<autoContinue, maxAttempts, strictMode, workspaceFolder, ledger, batch, cfg,
                 verdicts, ghost, parse>>
  /\ UNCHANGED <<edit, savedStats, form, server>>

\* A faulty variant: the empty reply is not tested.
LLMFatalThrownOnly(res) == res.thrown
\* callLLMAPI fails to deliver a usable reply: every throw inside callLLMAPI,
\* and `if (!response) throw new Error('No response from model')`.
LLMFatal(res) == res.thrown \/ res.text = <<>>


\* A faulty variant: a response without tool calls passes in strict mode too.
NoCallsOkAlways(strict) == TRUE
\* processAgentResponse when toolCalls is empty: { ok: false } in strict mode,
\* else the code-generation path (no collaborator request) and { ok: true }.
NoCallsOk(strict) == ~strict

\* `await callLLMAPI(...)` settles: the throw, or processAgentResponse up to its
\* first executeToolCall, or (no tool call) to its return and beyond.
CallLLMReturn ==
  /\ pc = "llm"
  /\ \E res \in LLMArrivals :
       /\ lastLLM' = (IF res.thrown THEN "thrown"
                     ELSE IF res.text = <<>> THEN "empty" ELSE "text")
       /\ response' = res.text
       /\ IF LLMFatal(res)
          THEN /\ Finish("fatal", 0)
               /\ SetBatch(<<>>, 0, "none", 0, 0)
               /\ SetTrace(<<>>, <<>>)
               /\ SetCwds(FALSE)
               /\ extracted' = <<>>
               /\ generatedFiles' = <<>>
               /\ UNCHANGED nToolless
          ELSE LET calls == extractToolCalls(Text(res.text)) IN
               /\ nToolless' = nToolless + (IF calls = <<>> THEN 1 ELSE 0)
               /\ extracted' = calls
               /\ generatedFiles' = IF calls = <<>> /\ NoCallsOk(cfg.strictMode)
                                    THEN GeneratedFiles(Text(res.text)) ELSE <<>>
               /\ IF calls # <<>>
                  THEN /\ pc' = "tools"
                       /\ agentState' = [agentState EXCEPT !.status = "testing"]
                       /\ UNCHANGED <<isRunning, trainingProgress, attempt, solved,
                                      lastFailureSummary, prompt, failureText,
                                      nModel, nVerify, nInvalid, exit>>
                       /\ SetBatch(calls, 0, "none", 0, 0)
                  ELSE /\ AfterProcess(NoCallsOk(cfg.strictMode))
                       /\ SetBatch(<<>>, 0, IF NoCallsOk(cfg.strictMode)
                                            THEN "ok" ELSE "fail",
                                   0, 0)
               /\ SetTrace(<<"testing">>, <<>>)
               /\ SetCwds(FALSE)
  /\ SetUnknown(0)
  /\ SetReply
  /\ UNCHANGED <<settings, ledger, cfg, verifyCmd, probe, verdicts, rewardAtStart>>
  /\ UNCHANGED <<edit, savedStats, form, server>>

\* A faulty variant: the batch is walked from its end.
NextCallReversed(calls, idx) == calls[Len(calls) - idx]
\* for (const call of toolCalls): the call the loop takes after idx calls.
NextCall(calls, idx) == calls[idx + 1]

\* `await executeToolCall(call)` for the next call of the batch; after the last
\* one processAgentResponse returns { ok: true }. An exception out of
\* executeToolCall would land in processAgentResponse's catch: { ok: false }.
ExecuteToolCall ==
  /\ pc = "tools"
  /\ toolIdx < Len(toolCalls)
  /\ \E reply \in {"ok", "successFalse", "httpError", "networkError", "badBody"} :
       LET call == NextCall(toolCalls, toolIdx)
           result == executeToolCall(call, reply)
           collab == nCollab + (IF MadeRequest(result) THEN 1 ELSE 0)
           failed == nFailed + (IF result \in {"failed", "raise"} THEN 1 ELSE 0)
       IN
       /\ IF result = "raise"
          THEN /\ AfterProcess(FALSE)
               /\ SetBatch(toolCalls, toolIdx + 1, "fail", collab, failed)
          ELSE IF toolIdx + 1 = Len(toolCalls)
               THEN /\ AfterProcess(TRUE)
                    /\ SetBatch(toolCalls, toolIdx + 1, "ok", collab, failed)
               ELSE /\ UNCHANGED loop
                    /\ SetBatch(toolCalls, toolIdx + 1, "none", collab, failed)
       /\ SetUnknown(nUnknown + (IF result = "unknown" THEN 1 ELSE 0))
       /\ SetTrace(<<>>, Append(issued, call))
       /\ SetCwds(MadeRequest(result))
  /\ SetReply
  /\ UNCHANGED <<settings, ledger, cfg, verifyCmd, probe, verdicts>>
  /\ UNCHANGED <<ghost, parse>>
  /\ UNCHANGED <<edit, savedStats, form, server>>

\* `await postJSON('/api/shell', { cmd: verifyCmd, ... })` settles.
VerifyReturn ==
  /\ pc = "verify"
  /\ \E res \in VerifyReplies :
       /\ verdicts' = Append(verdicts, [attempt |-> attempt, result |-> Verdict(res)])
       /\ IF res.thrown
          THEN /\ Finish("fatal", 0)
               /\ UNCHANGED ledger
             ELSE LET success == VerifySuccess(res)
                   after == recordAttempt(stats, success)
                   text == VerifyFailureText(res, agentState.episode, attempt)
                   summary == VerifyFailureSummary(res, agentState.episode, attempt)
               IN
               /\ attemptHistory' = Append(attemptHistory,
                    [attempt |-> attempt, success |-> success])
               /\ stats' = after
               /\ added' = [totalAttempts |-> added.totalAttempts
                                 + after.totalAttempts - stats.totalAttempts,
                            totalSuccesses |-> added.totalSuccesses
                                 + after.totalSuccesses - stats.totalSuccesses]
               /\ IF success
                  THEN Finish("solved", 0)
                  ELSE IF ShouldStop(cfg.autoContinue, attempt, cfg.maxAttempts)
                       THEN Finish("stopped", 0)
                       ELSE StartAttempt(text, summary, 0)
  /\ SetBatch(toolCalls, toolIdx, procOk, nCollab, nFailed)
  /\ SetUnknown(nUnknown)
  /\ SetTrace(<<>>, issued)
  /\ SetCwds(FALSE)
  /\ SetReply
  /\ UNCHANGED <<settings, cfg, verifyCmd, probe, ghost, parse>>
  /\ UNCHANGED <<edit, savedStats, form, server>>

\* The invocation of runAgent has returned: its locals, and what was recorded
\* of the run, are dropped.
Return ==
  /\ pc = "done"
  /\ pc' = "idle"
  /\ cfg' = [autoContinue |-> TRUE, maxAttempts |-> InitialMaxAttempts * Scale,
             strictMode |-> TRUE, workspaceFolder |-> InitialWorkspace]
  /\ verifyCmd' = ""
  /\ attempt' = 0
  /\ solved' = FALSE
  /\ lastLLM' = "none"
  /\ verdicts' = <<>>
  /\ nModel' = 0 /\ nVerify' = 0 /\ nInvalid' = 0 /\ nToolless' = 0
  /\ exit' = "none"
  /\ added' = NoStats
  /\ rewardAtStart' = 0
  /\ trail' = <<>>
  /\ cwds' = {}
  /\ pending' = <<>>
  /\ probe' = <<>>
  /\ response' = <<>>
  /\ extracted' = <<>>
  /\ generatedFiles' = <<>>
  /\ UNCHANGED <<settings, stats, attemptHistory, agentState, isRunning,
                 trainingProgress, batch, lastFailureSummary, prompt, failureText,
                 active, issued>>
  /\ UNCHANGED <<edit, savedStats, form, server>>

\* The settings card. The running invocation of runAgent reads the values it
\* closed over (cfg), so a change made during a run reaches the next run only:
\* the inputs are modelled between runs.
SetAutoContinue ==
  /\ pc = "idle"
  /\ \E b \in BOOLEAN : autoContinue' = b
  /\ UNCHANGED <<maxAttempts, strictMode, verificationCmd, workspaceFolder, ledger, batch, loop,
                 cfg, verifyCmd, probe, verdicts, ghost, trace,
                 pending, parse>>
  /\ UNCHANGED <<edit, savedStats, form, server>>

SetStrictMode ==
  /\ pc = "idle"
  /\ \E b \in BOOLEAN : strictMode' = b
  /\ UNCHANGED <<autoContinue, maxAttempts, verificationCmd, workspaceFolder, ledger, batch, loop,
                 cfg, verifyCmd, probe, verdicts, ghost, trace,
                 pending, parse>>
  /\ UNCHANGED <<edit, savedStats, form, server>>

SetMaxAttempts ==
  /\ pc = "idle"
  /\ \E typed \in 0..MaxTyped : maxAttempts' = ClampMaxAttempts(typed)
  /\ UNCHANGED <<autoContinue, strictMode, verificationCmd, workspaceFolder, ledger, batch, loop,
                 cfg, verifyCmd, probe, verdicts, ghost, trace,
                 pending, parse>>
  /\ UNCHANGED <<edit, savedStats, form, server>>

SetVerificationCmd ==
  /\ pc = "idle"
  /\ \E s \in {"", " ", "npm test --silent"} : verificationCmd' = s
  /\ UNCHANGED <<autoContinue, maxAttempts, strictMode, workspaceFolder, ledger, batch, loop,
                 cfg, verifyCmd, probe, verdicts, ghost, trace,
                 pending, parse>>
  /\ UNCHANGED <<edit, savedStats, form, server>>

\* A faulty variant: the button clears the counters and keeps the history.
ResetCountersOnly ==
  /\ pc # "done"
  /\ stats' = NoStats
  /\ UNCHANGED <<settings, attemptHistory, added, batch, loop, cfg, verifyCmd, probe,
                 verdicts, ghost, trace,
                 pending, parse>>
  /\ UNCHANGED <<edit, savedStats, form, server>>

\* The "Reset stats" button.
ResetStats ==
  /\ pc # "done"
  /\ stats' = NoStats
  /\ attemptHistory' = <<>>
  /\ UNCHANGED <<settings, added, batch, loop, cfg, verifyCmd, probe, verdicts, ghost, trace,
                 pending, parse>>
  /\ UNCHANGED <<edit, savedStats, form, server>>

Next ==
  \/ RunAgent
  \/ AutoDetectReturn
  \/ CallLLMReturn
  \/ ExecuteToolCall
  \/ VerifyReturn
  \/ Return
  \/ SetAutoContinue
  \/ SetStrictMode
  \/ SetMaxAttempts
  \/ SetVerificationCmd
  \/ ResetStats

Spec == Init /\ [][Next]_vars

\* ------------------------------------------------------------ the properties
\* The run has ended and its record is still there.
Ended == pc = "done"
\* The attempt budget of the run is a whole number N.
WholeBudget == cfg.maxAttempts % Scale = 0
BudgetN == cfg.maxAttempts \div Scale
\* Every model call of the run returned text.
ModelAnswered == lastLLM = "text"
\* The run's verifications, attempt by attempt.
VerdictsAre(seq) ==
  /\ Len(verdicts) = Len(seq)
  /\ \A i \in 1..Len(seq) : verdicts[i] = [attempt |-> i, result |-> seq[i]]
Fails(n) == [i \in 1..n |-> "fail"]

\* C1: with auto-continue on, a whole budget N, every response holding a tool
\* call and the verification failing every time, the run makes exactly N
\* attempts (N model calls, N verifications), ends without success, adds N to
\* totalAttempts and 0 to totalSuccesses and leaves reward as it was.
C1_BudgetExhausted ==
  (/\ Ended /\ cfg.autoContinue /\ WholeBudget /\ HasVerify(verifyCmd)
   /\ ModelAnswered /\ nToolless = 0
   /\ \A i \in 1..Len(verdicts) : verdicts[i].result = "fail")
  => /\ attempt = BudgetN
     /\ nModel = BudgetN
     /\ nVerify = BudgetN
     /\ VerdictsAre(Fails(BudgetN))
     /\ ~solved /\ exit = "stopped"
     /\ added = [totalAttempts |-> BudgetN, totalSuccesses |-> 0]
     /\ agentState.reward = rewardAtStart
     /\ agentState.status = "idle"

\* A run of three failed verifications under the budget 3.
C1_Witness ==
  /\ Ended /\ cfg.autoContinue /\ cfg.maxAttempts = 3 * Scale /\ HasVerify(verifyCmd)
  /\ ModelAnswered /\ nToolless = 0
  /\ VerdictsAre(Fails(3))
  /\ attempt = 3

\* C2: with auto-continue on, when the verification fails on the attempts
\* 1..k-1 and passes on attempt k, the run ends right after attempt k (k model
\* calls, k verifications), as a success, having added k to totalAttempts, 1 to
\* totalSuccesses and 1 to reward.
C2_StopsAtFirstPass ==
  \A k \in 1..(MaxAttemptsLimit) :
    (/\ pc \in {"llm", "tools", "verify", "done"} /\ cfg.autoContinue
     /\ Len(verdicts) >= k
     /\ \A i \in 1..k : verdicts[i] = [attempt |-> i,
                                       result |-> IF i < k THEN "fail" ELSE "pass"])
    => /\ Ended
       /\ Len(verdicts) = k
       /\ attempt = k /\ nModel = k /\ nVerify = k
       /\ k * Scale < cfg.maxAttempts + Scale
       /\ solved /\ exit = "solved"
       /\ added = [totalAttempts |-> k, totalSuccesses |-> 1]
       /\ agentState.reward = rewardAtStart + 1

\* A failed first attempt and a passing second one.
C2_Witness ==
  /\ Ended /\ cfg.autoContinue /\ cfg.maxAttempts = 3 * Scale
  /\ VerdictsAre(<<"fail", "pass">>)
  /\ solved

\* C3: a run counts as a success (reward and successCount raised) only when a
\* verification ran in its last attempt and passed; without a verification
\* command no run succeeds.
C3_SuccessOnlyVerified ==
  /\ pc # "idle" =>
       /\ agentState.reward = rewardAtStart + (IF solved THEN 1 ELSE 0)
       /\ solved =>
            /\ Ended /\ exit = "solved"
            /\ HasVerify(verifyCmd)
            /\ verdicts # <<>>
            /\ verdicts[Len(verdicts)] = [attempt |-> attempt, result |-> "pass"]
  /\ OrZero(agentState.successCount) = agentState.reward

\* A run that ended as a success, its last attempt verified.
C3_Witness ==
  /\ Ended /\ solved /\ agentState.reward = rewardAtStart + 1
  /\ verdicts[Len(verdicts)] = [attempt |-> attempt, result |-> "pass"]

\* C4 (as stated): without a verification command, configured or detected, a
\* run makes exactly one attempt and one model call, whatever the settings and
\* whatever the model responds, and ends unverified.
C4_SingleAttemptAlways ==
  (Ended /\ verifyCmd = "") => (attempt = 1 /\ nModel = 1 /\ ~solved)

\* C4 (amended): without a verification command a run never verifies, records
\* nothing in the statistics and never succeeds; it makes one model call per
\* attempt, and one attempt only unless strict mode found a response
\* structurally invalid: such attempts are retried while auto-continue is on
\* and the budget lasts, and the first structurally valid attempt ends the run.
C4_NoVerifyRun ==
  (Ended /\ verifyCmd = "") =>
    /\ ~solved /\ agentState.reward = rewardAtStart
    /\ nVerify = 0 /\ verdicts = <<>> /\ added = NoStats
    /\ nModel = attempt
    /\ exit \in {"noverify", "stopped", "fatal"}
    /\ (nInvalid = 0 \/ ~cfg.strictMode) => attempt = 1
    /\ exit = "noverify" => attempt = nInvalid + 1
    /\ exit = "stopped" =>
         /\ attempt = nInvalid
         /\ ~cfg.autoContinue \/ attempt * Scale >= cfg.maxAttempts
    /\ attempt > 1 => cfg.autoContinue /\ cfg.strictMode
                      /\ (attempt - 1) * Scale < cfg.maxAttempts

\* A run without verification whose first response strict mode rejected and
\* whose second attempt ended it unverified.
C4_Witness ==
  /\ Ended /\ verifyCmd = ""
  /\ exit = "noverify" /\ attempt = 2 /\ nInvalid = 1 /\ nModel = 2

\* C5 (as stated): a run ends as a verified success, or with the attempt
\* counter at maxAttempts, or at the no-verification stop after one attempt.
C5_ThreeEndings ==
  Ended =>
    \/ exit = "solved" /\ solved
    \/ exit = "stopped" /\ attempt * Scale >= cfg.maxAttempts
    \/ exit = "noverify" /\ attempt = 1

\* C5 (amended): a run ends in exactly one of four ways: a verified success
\* (its last attempt's verification passed); a stop after a failed attempt
\* because auto-continue is off or the attempt counter has reached maxAttempts;
\* the no-verification stop after the first structurally valid attempt; a
\* fatal error (the model call threw or returned nothing, or the verification
\* request threw).
C5_RunEndings ==
  Ended =>
    /\ exit \in {"solved", "stopped", "noverify", "fatal"}
    /\ solved <=> exit = "solved"
    /\ exit = "solved" =>
         /\ verdicts # <<>>
         /\ verdicts[Len(verdicts)] = [attempt |-> attempt, result |-> "pass"]
    /\ exit = "stopped" =>
         /\ ~cfg.autoContinue \/ attempt * Scale >= cfg.maxAttempts
         /\ lastLLM = "text"
         /\ \/ /\ verdicts # <<>>
               /\ verdicts[Len(verdicts)] = [attempt |-> attempt, result |-> "fail"]
            \/ /\ nInvalid >= 1
               /\ \A i \in 1..Len(verdicts) : verdicts[i].attempt < attempt
    /\ exit = "noverify" =>
         /\ ~HasVerify(verifyCmd) /\ lastLLM = "text"
         /\ attempt = nInvalid + 1
    /\ exit = "fatal" =>
         \/ lastLLM \in {"thrown", "empty"}
         \/ /\ verdicts # <<>>
            /\ verdicts[Len(verdicts)] = [attempt |-> attempt, result |-> "thrown"]

\* A run stopped after its first failed verification, auto-continue off and
\* the budget not reached.
C5_Witness ==
  /\ Ended /\ exit = "stopped" /\ ~cfg.autoContinue
  /\ attempt = 1 /\ cfg.maxAttempts = InitialMaxAttempts * Scale
  /\ VerdictsAre(Fails(1))

\* C6: whatever the collaborators answer, processAgentResponse is left only
\* with the last tool call of the batch dispatched, and it is left with the
\* attempt structurally valid: the run goes on to the verification (or, with
\* no verification command, to the no-verification stop), never to a retry or
\* to an error.
C6_ToolFailuresIsolated ==
  [][(pc = "tools" /\ pc' # "tools") =>
       /\ toolIdx + 1 = Len(toolCalls)
       /\ nInvalid' = nInvalid
       /\ attempt' = attempt
       /\ nModel' = nModel
       /\ \/ /\ HasVerify(verifyCmd)
             /\ pc' = "verify" /\ procOk' = "ok"
             /\ toolIdx' = Len(toolCalls') /\ toolCalls' = toolCalls
             /\ exit' = "none"
          \/ /\ ~HasVerify(verifyCmd)
             /\ pc' = "done" /\ exit' = "noverify"]_vars

\* A batch of two tool calls, both failed at their collaborator, and the
\* attempt at its verification.
C6_Witness ==
  /\ pc = "verify" /\ procOk = "ok"
  /\ Len(toolCalls) = 2 /\ toolIdx = 2
  /\ nCollab = 2 /\ nFailed = 2

\* C7: when the model call of an attempt throws or returns empty text the run
\* ends in that very step: no tool call, no verification and no model call
\* follows, the run is no success, reward is as it was, and the statistics
\* hold the earlier attempts' verifications only.
C7_ModelFailureFatal ==
  lastLLM \in {"thrown", "empty"} =>
    /\ Ended /\ exit = "fatal"
    /\ ~solved /\ agentState.reward = rewardAtStart
    /\ agentState.status = "idle" /\ ~isRunning
    /\ nModel = attempt
    /\ toolCalls = <<>> /\ toolIdx = 0 /\ nCollab = 0
    /\ nVerify = Len(verdicts)
    /\ added.totalAttempts = Len(verdicts) /\ added.totalSuccesses = 0
    /\ \A i \in 1..Len(verdicts) :
         verdicts[i].attempt < attempt /\ verdicts[i].result = "fail"

\* The model returned empty text in the second attempt of a run.
C7_Witness ==
  /\ Ended /\ lastLLM = "empty" /\ attempt = 2
  /\ VerdictsAre(Fails(1))

\* C8 (as stated): the number of attempts never exceeds maxAttempts; an
\* attempt after the first is made only with auto-continue on and the counter
\* below maxAttempts; with auto-continue off a run makes one attempt.
C8_AttemptsWithinBudget ==
  pc # "idle" =>
    /\ attempt * Scale <= cfg.maxAttempts
    /\ attempt > 1 => cfg.autoContinue /\ (attempt - 1) * Scale < cfg.maxAttempts
    /\ ~cfg.autoContinue => attempt <= 1

\* C9 (as stated): the failure summary in a prompt is at most Cap characters.
C9_SummaryWithinCap ==
  StrLen(prompt.ctx) <= Cap /\ StrLen(lastFailureSummary) <= Cap

\* C10: the prompt of the first attempt of a run carries no failure context;
\* the prompt of attempt N+1 carries the failure text of attempt N of the same
\* run and nothing else: the verification's stdout, a newline and its stderr
\* (or error), or the strict-mode message; whole when it is at most Cap
\* characters, else its first Cap characters followed by the marker.
C10_ContextFromPreviousAttempt ==
  pc \in {"llm", "tools", "verify"} =>
    /\ prompt.attempt = attempt
    /\ prompt.ctx = lastFailureSummary
    /\ attempt = 1 => prompt.ctx = <<>> /\ failureText = <<>>
    /\ attempt > 1 =>
         /\ failureText # <<>>
         /\ \A i \in 1..Len(failureText) :
              /\ failureText[i].r = agentState.episode
              /\ failureText[i].a = attempt - 1
              /\ failureText[i].n > 0
         /\ \/ /\ Len(failureText) = 1 /\ failureText[1].k = "strict"
               /\ \A i \in 1..Len(verdicts) : verdicts[i].attempt < attempt - 1
            \/ /\ \E i \in 1..Len(failureText) :
                    /\ failureText[i].k = "nl" /\ failureText[i].n = 1
                    /\ i <= 2 /\ Len(failureText) <= i + 1
                    /\ i = 2 => failureText[1].k = "out"
                    /\ Len(failureText) = i + 1 =>
                         failureText[i + 1].k \in {"err", "error"}
               /\ verdicts # <<>>
               /\ verdicts[Len(verdicts)] = [attempt |-> attempt - 1, result |-> "fail"]
         /\ prompt.ctx = IF StrLen(failureText) > Cap
                         THEN slice(failureText, Cap) \o Marker
                         ELSE failureText
         /\ StrLen(failureText) > Cap =>
              /\ StrLen(slice(failureText, Cap)) = Cap
              /\ \A i \in 1..(Len(prompt.ctx) - 1) :
                   prompt.ctx[i].k = failureText[i].k

\* The third attempt of a run, its prompt holding the cut output of the second.
C10_Witness ==
  /\ pc = "llm" /\ attempt = 3
  /\ StrLen(failureText) > Cap
  /\ prompt.ctx = slice(failureText, Cap) \o Marker
  /\ verdicts[Len(verdicts)] = [attempt |-> 2, result |-> "fail"]

\* ------------------------------------------- the tool-dispatch specification
\* processAgentResponse with a batch extracted, in the first attempt of the
\* first run. The batches are all sequences of up to MaxBatch calls; a call
\* names one of the nine tools, an unknown one or none, and carries any of the
\* parameters its case reads (write_file also with the empty content).
ToolInputs ==
  { <<"write_file", {"path", "content"}>>, <<"read_file", {"path"}>>,
    <<"delete_path", {"path"}>>, <<"make_dir", {"path"}>>,
    <<"move_path", {"from", "to"}>>, <<"run_shell", {"cmd"}>>,
    <<"git_commit", {"msg"}>>, <<"list_files", {}>>, <<"test_runner", {}>>,
    <<"format_disk", {}>>, <<"", {"path"}>> }
ToolCallShapes ==
  UNION { { Call(i[1], given, {}) : given \in SUBSET i[2] } : i \in ToolInputs }
  \cup { Call("write_file", {"path"}, {"content"}) }

\* The response a batch is extracted from: one fenced JSON block for each
\* call, the member "tool" first, then the parameters the call carries; a
\* call without a tool of its own holds the key in a nested object.
RECURSIVE RenderArgs(_, _)
RenderArgs(call, ps) ==
  IF ps = <<>> THEN <<>>
  ELSE (IF call.args[Head(ps)] = "missing" THEN <<>>
        ELSE <<Member(Head(ps), call.args[Head(ps)])>>)
       \o RenderArgs(call, Tail(ps))
Render(call) ==
  Seg("fencedTool", "json", call,
      Fenced("json", Object((IF call.tool # "" THEN <<ToolMember(call.tool)>>
                             ELSE <<Key("args")>> \o Object(<<ToolMember("read_file")>>))
                            \o RenderArgs(call, <<"path", "content", "from", "to", "cmd", "msg">>))))

\* The state runAgent is in when processAgentResponse has extracted a batch
\* from the first response of the first run.
ToolInit ==
  /\ agentState = [status |-> "testing", attempts |-> 1, reward |-> 0,
                   successCount |-> Undefined, episode |-> 1]
  /\ isRunning = TRUE
  /\ trainingProgress = 0
  /\ autoContinue = TRUE
  /\ maxAttempts = InitialMaxAttempts * Scale
  /\ strictMode = TRUE
  /\ verificationCmd \in {"", "npm test --silent"}
  /\ workspaceFolder = InitialWorkspace
  /\ stats = NoStats
  /\ attemptHistory = <<>>
  /\ pc = "tools"
  /\ cfg = [autoContinue |-> TRUE, maxAttempts |-> InitialMaxAttempts * Scale,
            strictMode |-> TRUE,
            workspaceFolder |-> InitialWorkspace]
  /\ verifyCmd = verificationCmd
  /\ attempt = 1
  /\ solved = FALSE
  /\ lastFailureSummary = <<>>
  /\ toolCalls \in UNION { [1..n -> ToolCallShapes] : n \in 1..MaxBatch }
  /\ toolIdx = 0
  /\ procOk = "none"
  /\ nCollab = 0
  /\ nFailed = 0
  /\ nUnknown = 0
  /\ prompt = [attempt |-> 1, ctx |-> <<>>]
  /\ failureText = <<>>
  /\ verdicts = <<>>
  /\ lastLLM = "text"
  /\ nModel = 1
  /\ nVerify = 0
  /\ nInvalid = 0
  /\ nToolless = 0
  /\ exit = "none"
  /\ added = NoStats
  /\ rewardAtStart = 0
  /\ trail = <<"testing">>
  /\ active = 1
  /\ issued = <<>>
  /\ cwds = IF verificationCmd = "" THEN {InitialWorkspace} ELSE {}
  /\ pending = <<>>
  /\ probe = <<>>
  /\ response = [i \in 1..Len(toolCalls) |-> Render(toolCalls[i])]
  /\ extracted = toolCalls
  /\ generatedFiles = <<>>
  /\ edit = NoEdit
  /\ savedStats = NoStats
  /\ command = "task"
  /\ selectedModels = "model"
  /\ toasts = 0
  /\ server = NoRequest("none")

ToolNext == ExecuteToolCall
ToolSpec == ToolInit /\ [][ToolNext]_vars

\* The call processAgentResponse is about to give to executeToolCall.
AtCall == toolCalls[toolIdx + 1]
\* A call without one of the parameters its tool needs.
Lacking(call) ==
  \/ call.tool = "write_file"
     /\ (call.args["path"] = "missing" \/ call.args["content"] = "missing")
  \/ call.tool \in {"read_file", "delete_path", "make_dir"}
     /\ call.args["path"] = "missing"
  \/ call.tool = "move_path"
     /\ (call.args["from"] = "missing" \/ call.args["to"] = "missing")
  \/ call.tool = "run_shell" /\ call.args["cmd"] = "missing"
  \/ call.tool = "git_commit" /\ call.args["msg"] = "missing"

\* C11: a tool call that lacks a required parameter makes no collaborator
\* request and raises nothing (no failure is logged, the attempt is not made
\* invalid, the run does not end in an error), and when the batch has a next
\* call processAgentResponse goes on to it.
C11_MissingParamSkipped ==
  [][(pc = "tools" /\ toolIdx < Len(toolCalls) /\ Lacking(AtCall)) =>
       /\ pc' \in {"tools", "verify"} => nCollab' = nCollab /\ nFailed' = nFailed
       /\ nInvalid' = nInvalid
       /\ exit' \in {"none", "noverify"}
       /\ procOk' # "fail"
       /\ toolIdx + 1 < Len(toolCalls) =>
            /\ pc' = "tools" /\ toolCalls' = toolCalls
            /\ toolIdx' = toolIdx + 1
       /\ toolIdx + 1 = Len(toolCalls) =>
            pc' = (IF verifyCmd = "" THEN "done" ELSE "verify")]_vars

\* A write_file without content, skipped, and the run_shell after it sent to
\* its collaborator.
C11_Witness ==
  /\ pc = "verify" /\ toolIdx = 2
  /\ toolCalls = <<Call("write_file", {"path"}, {}), Call("run_shell", {"cmd"}, {})>>
  /\ issued = toolCalls
  /\ nCollab = 1 /\ nFailed = 0 /\ procOk = "ok"

\* C12: in strict mode an attempt whose response holds no parseable tool call
\* is marked structurally invalid and goes straight to the retry or to the end
\* of the run: no tool call is dispatched, no collaborator is asked, no
\* verification runs and nothing is recorded in the statistics.
C12_StrictInvalidNoEffects ==
  [][(pc = "llm" /\ cfg.strictMode /\ lastLLM' = "text"
      /\ nToolless' = nToolless + 1) =>
       /\ nInvalid' = nInvalid + 1
       /\ pc' \in {"llm", "done"}
       /\ toolCalls' = <<>> /\ issued' = <<>> /\ nCollab' = 0
       /\ nVerify' = nVerify /\ verdicts' = verdicts
       /\ stats' = stats /\ attemptHistory' = attemptHistory /\ added' = added
       /\ ~solved' /\ agentState'.reward = agentState.reward
       /\ pc' = "done" => exit' = "stopped"
       /\ pc' = "llm" =>
            /\ attempt' = attempt + 1
            /\ failureText' = <<[k |-> "strict", r |-> agentState.episode,
                                 a |-> attempt, n |-> 44]>>]_vars

\* A run with a verification command whose first response held no tool call:
\* the second attempt has started and no verification has run.
C12_Witness ==
  /\ pc = "llm" /\ attempt = 2 /\ cfg.strictMode
  /\ nInvalid = 1 /\ nToolless = 1
  /\ verifyCmd # "" /\ nVerify = 0 /\ stats = NoStats
  /\ prompt.ctx = <<[k |-> "strict", r |-> agentState.episode, a |-> 1, n |-> 44]>>

\* C13: at most one invocation of runAgent is in flight: a run starts only
\* when none is active and the running flag is down, the flag is up exactly
\* while a run is active, and this at every suspension point of the run.
C13_SingleRun ==
  [][/\ active' > active => (active = 0 /\ ~isRunning /\ isRunning' /\ active' = 1)
     /\ active' <= 1
     /\ isRunning' <=> active' = 1
     /\ active' = 1 <=> pc' \in {"detect", "llm", "tools", "verify"}]_vars

\* The second run of a session suspended at its verification, the Execute
\* button disabled.
C13_Witness ==
  /\ pc = "verify" /\ isRunning /\ active = 1
  /\ agentState.episode = 2 /\ ExecuteDisabled

\* C14: within an attempt the steps come in the order model call, parse, tool
\* calls, verification: the batch is entered only from the model's reply, its
\* calls are given to executeToolCall one per step in the order of extraction,
\* and the verification starts only in the step that completes the last call
\* (or, with strict mode off and no tool call, right after the parse).
C14_StepsInOrder ==
  [][/\ (pc' = "tools" /\ pc # "tools") =>
          /\ pc = "llm" /\ lastLLM' = "text"
          /\ toolCalls' # <<>> /\ toolIdx' = 0 /\ issued' = <<>>
     /\ (pc = "tools" /\ pc' \in {"tools", "verify"}
         /\ <<pc, toolIdx, issued, nCollab>>' # <<pc, toolIdx, issued, nCollab>>) =>
          /\ toolCalls' = toolCalls
          /\ toolIdx' = toolIdx + 1
          /\ issued' = SubSeq(toolCalls, 1, toolIdx + 1)
          /\ nVerify' = nVerify + (IF pc' = "verify" THEN 1 ELSE 0)
     /\ (pc' = "verify" /\ pc # "verify") =>
          /\ pc \in {"llm", "tools"}
          /\ issued' = toolCalls' /\ toolIdx' = Len(toolCalls')
          /\ procOk' = "ok"
          /\ pc = "llm" => (toolCalls' = <<>> /\ ~cfg.strictMode)
     /\ pc = "verify" => (pc' \in {"verify", "llm", "done"} /\ issued' \in {issued, <<>>})
     /\ pc' \in {"llm", "tools", "verify"} => nModel' = attempt'
     /\ pc' \in {"llm", "tools"} => nVerify' = Len(verdicts')]_vars

\* The second attempt of a run at its verification, both calls of its batch
\* dispatched in order.
C14_Witness ==
  /\ pc = "verify" /\ attempt = 2 /\ nModel = 2
  /\ toolCalls = <<Call("write_file", {"path", "content"}, {}),
                   Call("run_shell", {"cmd"}, {})>>
  /\ issued = toolCalls /\ toolIdx = 2

\* The statuses a step goes through: the one before it, then those it assigns.
PhasePath == <<agentState.status>> \o trail'
\* The changes of phase the state machine of the specification allows: the
\* chain idle, thinking, coding, testing, verifying, training, idle; a retry
\* going back to thinking; the end of a run going to idle.
ClaimedPhaseChange(a, b) ==
  \/ a = b
  \/ <<a, b>> \in { <<"idle", "thinking">>, <<"thinking", "coding">>,
                    <<"coding", "testing">>, <<"testing", "verifying">>,
                    <<"verifying", "training">>, <<"training", "idle">>,
                    <<"testing", "thinking">>, <<"verifying", "thinking">>,
                    <<"coding", "idle">>, <<"testing", "idle">>,
                    <<"verifying", "idle">> }

\* C15 (as stated): every attempt, retries included, goes through thinking,
\* coding and testing in that order; verifying is entered from testing only,
\* training from verifying only, and idle at the end of the run only.
C15_PhaseOrder ==
  [][(<<pc, attempt, toolIdx>>' # <<pc, attempt, toolIdx>>) =>
       /\ \A i \in 1..(Len(PhasePath) - 1) :
            ClaimedPhaseChange(PhasePath[i], PhasePath[i + 1])
       /\ (attempt' > attempt /\ attempt >= 1) =>
            \E i \in 1..Len(trail') : trail'[i] = "thinking"]_vars

\* Where a run in progress is suspended.
RunPcs == {"detect", "llm", "tools", "verify"}

\* C16: the step that ends a run, however it ends, raises the episode counter
\* by exactly one, clears the running flag and leaves the phase idle; the
\* counter changes in no other step, and the flag stays up until then.
C16_EpisodeAndFlag ==
  [][/\ (pc \in RunPcs /\ pc' = "done") =>
          /\ agentState'.episode = agentState.episode + 1
          /\ isRunning /\ ~isRunning'
          /\ agentState'.status = "idle"
          /\ exit' \in {"solved", "stopped", "noverify", "fatal"}
     /\ agentState'.episode # agentState.episode => (pc \in RunPcs /\ pc' = "done")
     /\ pc' \in RunPcs => (isRunning' /\ pc \in RunPcs \cup {"idle"})
     /\ (pc = "idle" /\ pc' \in RunPcs) => ~isRunning]_vars

\* The first run of a session ended by a fatal error.
C16_Witness ==
  /\ Ended /\ exit = "fatal"
  /\ agentState.episode = 2 /\ ~isRunning /\ agentState.status = "idle"

\* -------------------------------------------------- the fair specification
\* Every collaborator call eventually returns or fails: the promise a run is
\* suspended at settles, so the step that resumes the run is eventually taken.
FairSpec ==
  /\ Spec
  /\ WF_vars(AutoDetectReturn)
  /\ WF_vars(CallLLMReturn)
  /\ WF_vars(ExecuteToolCall)
  /\ WF_vars(VerifyReturn)

\* C17: when every collaborator call settles, a run that has started
\* eventually ends: the phase is idle and the running flag is down, whether
\* the run succeeded, stopped or met a fatal error.
C17_RunEnds ==
  isRunning ~> (~isRunning /\ agentState.status = "idle" /\ pc \in {"done", "idle"})

\* A run ended by a fatal error in its second attempt, the flag down.
C17_Witness ==
  /\ Ended /\ exit = "fatal" /\ attempt = 2
  /\ ~isRunning /\ agentState.status = "idle"

\* ------------------------------------------- the interleaved specification
\* The auto-continue checkbox is not disabled during a run: the user may
\* change it while runAgent is suspended at an await. The invocation in
\* progress keeps reading the value it closed over (cfg.autoContinue).
SetAutoContinueDuringRun ==
  /\ pc \in {"detect", "llm", "tools", "verify"}
  /\ \E b \in BOOLEAN : autoContinue' = b
  /\ UNCHANGED <<maxAttempts, strictMode, verificationCmd, workspaceFolder, ledger,
                 batch, loop,
                 cfg, verifyCmd, probe, verdicts, ghost, trace,
                 pending, parse>>
  /\ UNCHANGED <<edit, savedStats, form, server>>

NextInterleaved ==
  \/ Next
  \/ SetAutoContinueDuringRun
SpecInterleaved == Init /\ [][NextInterleaved]_vars

\* C18 (as stated): once the user has disabled auto-continue during a run, the
\* run starts no further attempt; and the change itself interrupts nothing:
\* the attempt in progress stays where it is.
C18_DisableStopsRun ==
  [][/\ (pc \in {"llm", "tools", "verify"} /\ ~autoContinue) => attempt' <= attempt
     /\ (pc \in {"detect", "llm", "tools", "verify"} /\ autoContinue' # autoContinue) =>
          UNCHANGED <<pc, attempt, toolIdx, agentState, isRunning>>]_vars

\* C19: a step in which a verification came back with a result appends one
\* entry (this attempt, this result) to the history, adds 1 to totalAttempts,
\* and adds 1 to totalSuccesses exactly when the verification passed; any
\* other step that changes the history or the counters is the reset.
C19_LedgerAppendOnly ==
  [][/\ (Len(verdicts') = Len(verdicts) + 1
         /\ verdicts'[Len(verdicts')].result # "thrown") =>
          /\ attemptHistory' =
               Append(attemptHistory,
                      [attempt |-> attempt,
                       success |-> verdicts'[Len(verdicts')].result = "pass"])
          /\ stats'.totalAttempts = stats.totalAttempts + 1
          /\ stats'.totalSuccesses = stats.totalSuccesses
               + (IF verdicts'[Len(verdicts')].result = "pass" THEN 1 ELSE 0)
     /\ (stats' # stats \/ attemptHistory' # attemptHistory) =>
          \/ pc = "verify" /\ Len(verdicts') = Len(verdicts) + 1
          \/ /\ stats' = NoStats /\ attemptHistory' = <<>>
             /\ pc' = pc /\ verdicts' = verdicts]_vars

\* Two verifications recorded, the first failed and the second passed.
C19_Witness ==
  /\ attemptHistory = <<[attempt |-> 1, success |-> FALSE],
                        [attempt |-> 2, success |-> TRUE]>>
  /\ stats = [totalAttempts |-> 2, totalSuccesses |-> 1]

\* C20: the reset clears the counters and the history in the same step, also
\* while a run is in progress: no step leaves the counters cleared with
\* entries in the history, or the history emptied with counts standing.
C20_ResetAtomic ==
  [][/\ (stats # NoStats /\ stats' = NoStats) => attemptHistory' = <<>>
     /\ (attemptHistory # <<>> /\ attemptHistory' = <<>>) => stats' = NoStats
     /\ (stats' = NoStats /\ stats # NoStats) => UNCHANGED <<pc, attempt, added, verdicts>>]_vars

\* The statistics cleared during the second attempt of a run, after its first
\* verification had been recorded.
C20_Witness ==
  /\ pc = "verify" /\ attempt = 2
  /\ added.totalAttempts = 1
  /\ stats = NoStats /\ attemptHistory = <<>>

\* C21: a run starts with the attempt counter at 0 (at 1 when its first
\* attempt starts in the same step); during the run the counter, and the one
\* shown in agentState, change only by going up by one, and they do so exactly
\* when an attempt starts, that is with each model call.
C21_AttemptCounter ==
  [][/\ (pc = "idle" /\ pc' \in RunPcs) =>
          /\ attempt' = (IF pc' = "detect" THEN 0 ELSE 1)
          /\ agentState'.attempts = attempt'
          /\ nModel' = attempt'
     /\ pc \in RunPcs =>
          /\ attempt' \in {attempt, attempt + 1}
          /\ agentState'.attempts = attempt'
          /\ (attempt' = attempt + 1) <=> (nModel' = nModel + 1)
          /\ (attempt' = attempt + 1) => (pc' = "llm" /\ prompt'.attempt = attempt')]_vars

\* The third attempt of the second run of a session.
C21_Witness ==
  /\ pc = "llm" /\ attempt = 3 /\ agentState.attempts = 3
  /\ agentState.episode = 2 /\ nModel = 3

\* --------------------------------------- the training-progress specification
\* A session that has had k verified successes, each a run that passed its
\* first verification, is in run k + 1 at the verification of its first
\* attempt; the run then goes on to its end.
ProgressInit ==
  \E k \in 0..MaxSuccesses :
    /\ agentState = [status |-> "verifying", attempts |-> 1, reward |-> k,
                     successCount |-> IF k = 0 THEN Undefined ELSE k,
                     episode |-> k + 1]
    /\ isRunning = TRUE
    /\ trainingProgress = Min(k * ProgressStep, ProgressMax)
    /\ autoContinue = TRUE
    /\ maxAttempts = InitialMaxAttempts * Scale
    /\ strictMode = TRUE
    /\ verificationCmd = "npm test --silent"
    /\ workspaceFolder = InitialWorkspace
    /\ stats = [totalAttempts |-> k, totalSuccesses |-> k]
    /\ attemptHistory = [i \in 1..k |-> [attempt |-> 1, success |-> TRUE]]
    /\ pc = "verify"
    /\ cfg = [autoContinue |-> TRUE, maxAttempts |-> InitialMaxAttempts * Scale,
              strictMode |-> TRUE,
              workspaceFolder |-> InitialWorkspace]
    /\ verifyCmd = "npm test --silent"
    /\ attempt = 1
    /\ solved = FALSE
    /\ lastFailureSummary = <<>>
    /\ toolCalls = <<Call("run_shell", {"cmd"}, {})>>
    /\ toolIdx = 1
    /\ procOk = "ok"
    /\ nCollab = 1
    /\ nFailed = 0
    /\ nUnknown = 0
    /\ prompt = [attempt |-> 1, ctx |-> <<>>]
    /\ failureText = <<>>
    /\ verdicts = <<>>
    /\ lastLLM = "text"
    /\ nModel = 1
    /\ nVerify = 1
    /\ nInvalid = 0
    /\ nToolless = 0
    /\ exit = "none"
    /\ added = NoStats
    /\ rewardAtStart = k
    /\ trail = <<"verifying">>
    /\ active = 1
    /\ issued = <<Call("run_shell", {"cmd"}, {})>>
    /\ cwds = {InitialWorkspace}
    /\ pending = <<>>
    /\ probe = <<>>
    /\ response = <<FencedShell>>
    /\ extracted = toolCalls
    /\ generatedFiles = <<>>
    /\ edit = NoEdit
    /\ savedStats = NoStats
    /\ command = "task"
    /\ selectedModels = "model"
    /\ toasts = 0
    /\ server = NoRequest("none")

ProgressNext ==
  \/ CallLLMReturn
  \/ ExecuteToolCall
  \/ VerifyReturn
  \/ Return
ProgressSpec == ProgressInit /\ [][ProgressNext]_vars

\* The step in which a run ends as a verified success.
SuccessStep ==
  /\ pc = "verify" /\ pc' = "done" /\ solved'
  /\ verdicts'[Len(verdicts')] = [attempt |-> attempt, result |-> "pass"]

\* C22: reward changes only in the step that ends a run as a verified
\* success, by +1; in that step, and in no other, the training-progress meter
\* goes up by 10, stopping at 100; the meter always lies in 0..100 and never
\* goes down.
C22_RewardAndProgress ==
  [][/\ agentState'.reward # agentState.reward => SuccessStep
     /\ trainingProgress' # trainingProgress => SuccessStep
     /\ SuccessStep =>
          /\ agentState'.reward = agentState.reward + 1
          /\ trainingProgress' = (IF trainingProgress + 10 > 100 THEN 100
                                  ELSE trainingProgress + 10)
     /\ trainingProgress' \in 0..100
     /\ trainingProgress' >= trainingProgress]_vars

\* The eleventh verified success of a session: the meter stays at 100.
C22_Witness ==
  /\ Ended /\ solved /\ agentState.reward = 11
  /\ trainingProgress = 100 /\ attempt = 2

\* ------------------------------------------ the response-parsing specification
\* processAgentResponse given every response of up to MaxPieces pieces, in
\* the first attempt of the first run, strict mode on or off.
FencedNested == Seg("fencedTool", "", Call("move_path", {"from", "to"}, {}),
                    <<Fence>> \o MoveNestedText \o <<Fence>>)
\* A block whose "tool" key sits in a nested object: the parsed object has no
\* tool of its own.
FencedDeepTool == Seg("fencedTool", "json", NoCall,
                      Fenced("json", Object(<<Key("args")>>
                                            \o Object(<<ToolMember("read_file")>>))))
FencedUnclosed == Seg("fencedBad", "json", NoCall,
                      Fenced("json", <<Open, ToolMember("read_file")>>))
FencedPlain == Seg("fencedCode", "json", NoCall,
                   Fenced("json", Object(<<Member("path", "text")>>)))
PyCode == Seg("fencedCode", "python", NoCall, Fenced("python", <<Word("def")>>))
GoCode == Seg("fencedCode", "go", NoCall, Fenced("go", <<Word("func")>>))
InlineNested == Seg("inlineTool", "", Call("move_path", {"from", "to"}, {}),
                    MoveNestedText)
InlineWrite == Seg("inlineTool", "", Call("write_file", {"path", "content"}, {}),
                   WriteFileText)
Pieces ==
  { Prose, FencedWrite, FencedShell, FencedNested, FencedDeepTool, FencedBad,
    FencedUnclosed, FencedPlain, RustCode, PyCode, GoCode,
    Seg("fencedCode", "javascript", NoCall, Fenced("javascript", <<Word("let")>>)),
    Seg("fencedCode", "", NoCall, <<Fence, NL, Word("x"), NL, Fence>>),
    InlineRead, InlineUnknown, InlineNested, InlineWrite,
    Seg("inlineOther", "", NoCall, Object(<<Member("path", "text")>>)) }
MaxPieces == 3

ParseInit ==
  /\ agentState = [status |-> "coding", attempts |-> 1, reward |-> 0,
                   successCount |-> Undefined, episode |-> 1]
  /\ isRunning = TRUE
  /\ trainingProgress = 0
  /\ autoContinue = TRUE
  /\ maxAttempts = InitialMaxAttempts * Scale
  /\ strictMode \in BOOLEAN
  /\ verificationCmd = "npm test --silent"
  /\ workspaceFolder = InitialWorkspace
  /\ stats = NoStats
  /\ attemptHistory = <<>>
  /\ pc = "llm"
  /\ cfg = [autoContinue |-> TRUE, maxAttempts |-> InitialMaxAttempts * Scale,
            strictMode |-> strictMode,
              workspaceFolder |-> InitialWorkspace]
  /\ verifyCmd = "npm test --silent"
  /\ attempt = 1
  /\ solved = FALSE
  /\ lastFailureSummary = <<>>
  /\ toolCalls = <<>>
  /\ toolIdx = 0
  /\ procOk = "none"
  /\ nCollab = 0
  /\ nFailed = 0
  /\ nUnknown = 0
  /\ prompt = [attempt |-> 1, ctx |-> <<>>]
  /\ failureText = <<>>
  /\ verdicts = <<>>
  /\ lastLLM = "none"
  /\ nModel = 1
  /\ nVerify = 0
  /\ nInvalid = 0
  /\ nToolless = 0
  /\ exit = "none"
  /\ added = NoStats
  /\ rewardAtStart = 0
  /\ trail = <<"thinking", "coding", "coding">>
  /\ active = 1
  /\ issued = <<>>
  /\ cwds = {}
  /\ \E t \in UNION { [1..n -> Pieces] : n \in 1..MaxPieces } : pending = <<[thrown |-> FALSE, text |-> t]>>
  /\ probe = <<>>
  /\ response = <<>>
  /\ extracted = <<>>
  /\ generatedFiles = <<>>
  /\ edit = NoEdit
  /\ savedStats = NoStats
  /\ command = "task"
  /\ selectedModels = "model"
  /\ toasts = 0
  /\ server = NoRequest("none")

ParseNext == CallLLMReturn
ParseSpec == ParseInit /\ [][ParseNext]_vars

\* The objects of the pieces of one kind, in source order.
RECURSIVE ObjectsOf(_, _)
ObjectsOf(segs, kind) ==
  IF segs = <<>> THEN <<>>
  ELSE (IF Head(segs).k = kind THEN <<Head(segs).call>> ELSE <<>>)
       \o ObjectsOf(Tail(segs), kind)
Holds(segs, kind) == \E i \in 1..Len(segs) : segs[i].k = kind

C24_InlineRecovered ==
  (/\ lastLLM = "text"
   /\ ~Holds(response, "fencedTool") /\ ~Holds(response, "fencedBad")
   /\ Holds(response, "inlineTool")) =>
     extracted = ObjectsOf(response, "inlineTool")

\* C25: when the fenced pass yields at least one tool call the inline pass
\* does not run: the loose tool objects outside the fences are not extracted,
\* and the extracted list never mixes fenced and inline tool calls.
C25_FencedPreferred ==
  (lastLLM = "text" /\ FencedPass(Text(response)) # <<>>) =>
     /\ extracted = FencedPass(Text(response))
     /\ Holds(response, "inlineTool") =>
          Len(extracted) = Len(ObjectsOf(response, "fencedTool"))

C25_Witness ==
  /\ response = <<InlineRead, FencedShell, InlineUnknown>>
  /\ extracted = <<Call("run_shell", {"cmd"}, {})>>
  /\ pc = "tools"

\* ------------------------------------------------ the detection specification
\* The first run of a session, started with a blank verification setting, is
\* suspended in autoDetectVerificationCmd, and the replies to its two reads
\* have arrived: any of the replies the reads can have. The session goes on
\* from there with runs and changes of the verification setting.
DetectInit ==
  /\ agentState = [status |-> "coding", attempts |-> 0, reward |-> 0,
                   successCount |-> Undefined, episode |-> 1]
  /\ isRunning = TRUE
  /\ trainingProgress = 0
  /\ autoContinue = TRUE
  /\ maxAttempts = InitialMaxAttempts * Scale
  /\ strictMode = TRUE
  /\ verificationCmd \in {"", " "}
  /\ workspaceFolder = InitialWorkspace
  /\ stats = NoStats
  /\ attemptHistory = <<>>
  /\ pc = "detect"
  /\ cfg = [autoContinue |-> TRUE, maxAttempts |-> InitialMaxAttempts * Scale,
            strictMode |-> TRUE,
              workspaceFolder |-> InitialWorkspace]
  /\ verifyCmd = ""
  /\ attempt = 0
  /\ solved = FALSE
  /\ lastFailureSummary = <<>>
  /\ toolCalls = <<>>
  /\ toolIdx = 0
  /\ procOk = "none"
  /\ nCollab = 0
  /\ nFailed = 0
  /\ nUnknown = 0
  /\ prompt = NoPrompt
  /\ failureText = <<>>
  /\ verdicts = <<>>
  /\ lastLLM = "none"
  /\ nModel = 0
  /\ nVerify = 0
  /\ nInvalid = 0
  /\ nToolless = 0
  /\ exit = "none"
  /\ added = NoStats
  /\ rewardAtStart = 0
  /\ trail = <<"thinking", "coding">>
  /\ active = 1
  /\ issued = <<>>
  /\ cwds = {InitialWorkspace}
  /\ pending = <<>>
  /\ \E p \in PkgReplies, t \in TscReplies : probe = <<[pkg |-> p, tsc |-> t]>>
  /\ response = <<>>
  /\ extracted = <<>>
  /\ generatedFiles = <<>>
  /\ edit = NoEdit
  /\ savedStats = NoStats
  /\ command = "task"
  /\ selectedModels = "model"
  /\ toasts = 0
  /\ server = NoRequest("none")

DetectNext ==
  \/ RunAgent
  \/ AutoDetectReturn
  \/ CallLLMReturn
  \/ ExecuteToolCall
  \/ VerifyReturn
  \/ Return
  \/ SetVerificationCmd
DetectSpec == DetectInit /\ [][DetectNext]_vars

\* What the two reads told about the workspace.
DeclaresTest(p) == p.pkg \in {"test", "testAndBuild"}
DeclaresBuild(p) == p.pkg \in {"build", "testAndBuild"}
TsconfigReadable(p) == p.tsc = "ok"
\* The probe raised an error on package.json: the request was rejected, or the
\* content is not JSON.
ProbeRaised(p) == p.pkg \in {"thrown", "unparsable"}
\* The choice among the detected commands, as stated.
StatedChoice(p) ==
  IF DeclaresTest(p) THEN "npm test --silent"
  ELSE IF DeclaresBuild(p) THEN "npm run build"
  ELSE IF TsconfigReadable(p) THEN "npx tsc -noEmit"
  ELSE ""
\* The start of a run: the explicit setting when it is not blank, without any
\* detection; and the command is kept for the whole run.
ExplicitFirst ==
  /\ (pc = "idle" /\ pc' # "idle") =>
        IF verificationCmd \notin {"", " "}
        THEN pc' = "llm" /\ verifyCmd' = verificationCmd
        ELSE pc' = "detect"
  /\ (pc \in {"llm", "tools", "verify"} /\ pc' # "idle") => verifyCmd' = verifyCmd

\* C26 (as stated): the verification command of a run is the explicit setting
\* when it is non-blank, auto-detection not being consulted; otherwise the
\* test command when package.json declares a test script, else the build
\* command when it declares a build script, else the type-check command when
\* tsconfig.json is readable, else none.
C26_CommandSelection ==
  [][/\ ExplicitFirst
     /\ (pc = "detect" /\ pc' # "detect" /\ probe # <<>>) =>
           verifyCmd' = StatedChoice(probe[1])]_vars

\* C26 (amended): as stated, except that an error raised while package.json
\* is read or parsed ends the detection with no command, tsconfig.json not
\* being looked at.
C26_CommandSelectionUnlessRaised ==
  [][/\ ExplicitFirst
     /\ (pc = "detect" /\ pc' # "detect" /\ probe # <<>>) =>
           verifyCmd' = (IF ProbeRaised(probe[1]) THEN ""
                         ELSE StatedChoice(probe[1]))]_vars

\* A run whose command is the type-check command, detected in the first run of
\* the session; and a later run that takes the explicit setting.
C26_Witness ==
  /\ agentState.episode = 2 /\ pc = "llm" /\ attempt = 1
  /\ verificationCmd = "npx tsc -noEmit" /\ verifyCmd = "npx tsc -noEmit"

\* The nine tools the dispatcher knows.
Recognized ==
  {"write_file", "read_file", "list_files", "delete_path", "move_path",
   "make_dir", "run_shell", "test_runner", "git_commit"}

\* C27: a tool call whose tool is none of the nine recognised names, or is
\* absent, makes no collaborator request, is logged as unknown (and as nothing
\* else: no failure), and the calls that follow it in the batch are executed.
C27_UnknownToolIgnored ==
  [][(pc = "tools" /\ toolIdx < Len(toolCalls) /\ AtCall.tool \notin Recognized) =>
       /\ pc' \in {"tools", "verify"} =>
            /\ nCollab' = nCollab /\ nFailed' = nFailed
            /\ nUnknown' = nUnknown + 1
       /\ procOk' # "fail"
       /\ toolIdx + 1 < Len(toolCalls) =>
            /\ pc' = "tools" /\ toolCalls' = toolCalls
            /\ toolIdx' = toolIdx + 1
            /\ issued' = Append(issued, AtCall)]_vars

\* A call without a tool, logged as unknown, and the run_shell after it sent
\* to its collaborator.
C27_Witness ==
  /\ pc = "verify" /\ toolIdx = 2
  /\ toolCalls = <<Call("", {"path"}, {}), Call("run_shell", {"cmd"}, {})>>
  /\ issued = toolCalls
  /\ nUnknown = 1 /\ nCollab = 1 /\ nFailed = 0 /\ procOk = "ok"

\* The fenced blocks of a response.
IsFencedPiece(seg) == seg.k \in {"fencedTool", "fencedBad", "fencedCode"}
\* The name the k-th fenced block is surfaced under: src/generated_k and the
\* extension of its language.
StatedFile(k, lang) ==
  [n |-> k, ext |-> IF lang = "rust" THEN "rs"
                    ELSE IF lang = "javascript" THEN "js"
                    ELSE IF lang = "python" THEN "py" ELSE "txt"]
StatedFiles(segs) ==
  LET blocks == SelectSeq(segs, IsFencedPiece) IN
  [k \in 1..Len(blocks) |-> StatedFile(k, blocks[k].lang)]

\* C28: with strict mode off, a response without tool calls causes no tool
\* collaborator call; its fenced code blocks are surfaced as generated
\* artifacts only, block k being named src/generated_k with the extension rs
\* for rust, js for javascript, py for python and txt for any other language.
C28_CodeGenerationSurfacedOnly ==
  (lastLLM = "text" /\ pc # "llm" /\ ~cfg.strictMode /\ extracted = <<>>) =>
     /\ pc \notin {"tools"} /\ toolCalls = <<>> /\ issued = <<>>
     /\ nCollab = 0
     /\ generatedFiles = StatedFiles(response)

C28_Witness ==
  /\ ~cfg.strictMode /\ pc = "verify" /\ extracted = <<>> /\ nCollab = 0
  /\ response = <<RustCode, GoCode, PyCode>>
  /\ generatedFiles = <<[n |-> 1, ext |-> "rs"], [n |-> 2, ext |-> "txt"],
                        [n |-> 3, ext |-> "py"]>>

\* ------------------------------------------------ the workspace specification
\* The workspace-folder input is not disabled during a run: the user may type
\* another folder at any time.
SetWorkspaceFolder ==
  /\ pc # "done"
  /\ \E w \in {InitialWorkspace, "/srv/app"} : workspaceFolder' = w
  /\ UNCHANGED <<autoContinue, maxAttempts, strictMode, verificationCmd, ledger,
                 batch, loop, cfg, verifyCmd, probe, verdicts, ghost, trace,
                 pending, parse>>
  /\ UNCHANGED <<edit, savedStats, form, server>>

NextWorkspace ==
  \/ Next
  \/ SetWorkspaceFolder
SpecWorkspace == Init /\ [][NextWorkspace]_vars

\* C29: every collaborator request issued during a run (each tool call, the
\* verification command, the reads of the auto-detection) carries the
\* workspace root configured when the run was started as cwd: one value,
\* the same for all the requests of the run.
C29_OneRootPerRun ==
  /\ pc \in RunPcs \cup {"done"} => cwds \subseteq {cfg.workspaceFolder}
  /\ (pc \in RunPcs /\ (nCollab > 0 \/ nVerify > 0)) => cwds = {cfg.workspaceFolder}
  /\ pc = "detect" => cwds = {cfg.workspaceFolder}

\* A run started in /srv/app whose tool call and verification were issued
\* after the folder was changed back.
C29_Witness ==
  /\ pc = "verify" /\ nCollab = 2 /\ nVerify = 1 /\ attempt = 2
  /\ cfg.workspaceFolder = "/srv/app" /\ workspaceFolder = "./workspace"
  /\ cwds = {"/srv/app"}

\* ------------------------------------------------- the file-edit specification
\* FileUtilities.editFile(filePath, editFunction, options), one step for each
\* await. The target file holds "old" before the call; editFunction makes
\* "new" of it; a write that fails may have left the file as it was or torn
\* (truncated or partly written: fs.writeFile is not atomic).
\* What an fs.readFile, an fs.unlink, the edit function can come to.
CallOutcomes == {"ok", "throws"}
\* What an fs.writeFile can come to.
WriteOutcomes == {"ok", "throws", "torn"}

\* The content of a file after fs.writeFile(file, content) came to `outcome`.
Written(was, content, outcome) ==
  IF outcome = "ok" THEN content ELSE IF outcome = "torn" THEN "torn" ELSE was

EditStep(next) == edit' = [edit EXCEPT !.pc = next]
EditFrame ==
  UNCHANGED <<settings, ledger, batch, loop, cfg, verifyCmd, verdicts, ghost, trace,
              pending, parse, probe, savedStats, form, server>>

\* The call, up to its first await.
EditFile ==
  /\ edit.pc = "idle"
  /\ \E o \in [backup : BOOLEAN, keepBackup : BOOLEAN, validator : BOOLEAN] :
       edit' = [edit EXCEPT !.options = o,
                            !.pc = IF o.backup THEN "backup" ELSE "read"]
  /\ EditFrame

\* if (options.backup !== false) { readFile(absolutePath); writeFile(backupPath) }
CreateBackup ==
  /\ edit.pc = "backup"
  /\ \E r \in CallOutcomes, w \in WriteOutcomes :
       IF r = "throws" THEN EditStep("catch")
       ELSE edit' = [edit EXCEPT
                       !.backup = IF w = "throws" THEN "none"
                                  ELSE Written("none", edit.target, w),
                       !.pc = IF w = "ok" THEN "read" ELSE "catch"]
  /\ EditFrame

\* const originalContent = await fs.readFile(absolutePath, 'utf-8')
ReadOriginal ==
  /\ edit.pc = "read"
  /\ \E r \in CallOutcomes : EditStep(IF r = "ok" THEN "apply" ELSE "catch")
  /\ EditFrame

\* const newContent = await editFunction(originalContent)
ApplyEdit ==
  /\ edit.pc = "apply"
  /\ \E r \in CallOutcomes :
       IF r = "throws" THEN EditStep("catch")
       ELSE edit' = [edit EXCEPT !.newContent = "new",
                                 !.pc = IF edit.options.validator THEN "validate"
                                        ELSE "write"]
  /\ EditFrame

\* if (options.validator) { if (!(await options.validator(...))) throw ... }
Validate ==
  /\ edit.pc = "validate"
  /\ \E v \in {"valid", "invalid", "throws"} : EditStep(IF v = "valid" THEN "write" ELSE "catch")
  /\ EditFrame

\* await fs.writeFile(absolutePath, newContent)
WriteNew ==
  /\ edit.pc = "write"
  /\ \E w \in WriteOutcomes :
       edit' = [edit EXCEPT
                  !.target = Written(edit.target, edit.newContent, w),
                  !.pc = IF w # "ok" THEN "catch"
                         ELSE IF ~edit.options.keepBackup /\ edit.options.backup
                              THEN "cleanup" ELSE "returned"]
  /\ EditFrame

\* await fs.unlink(backupPath), then return { success: true, ... }
CleanUp ==
  /\ edit.pc = "cleanup"
  /\ \E u \in CallOutcomes :
       IF u = "ok" THEN edit' = [edit EXCEPT !.backup = "none", !.pc = "returned"]
       ELSE EditStep("catch")
  /\ EditFrame

\* The catch block: if the backup file exists, read it, write it over the
\* target and delete it, an error on the way being logged and dropped; then
\* throw new Error(`Edit failed: ...`).
Restore(e, r, w, u) ==
  IF e.backup = "none" \/ r = "throws" THEN [e EXCEPT !.pc = "thrown"]
  ELSE [e EXCEPT !.target = Written(e.target, e.backup, w),
                 !.backup = IF w = "ok" /\ u = "ok" THEN "none" ELSE e.backup,
                 !.pc = "thrown"]
Catch ==
  /\ edit.pc = "catch"
  /\ \E r \in CallOutcomes, w \in WriteOutcomes, u \in CallOutcomes :
       edit' = Restore(edit, r, w, u)
  /\ EditFrame

\* The caller has its result. The next call finds the file as this one left
\* it (its content is the "old" of that call) and names a backup file of its
\* own (`${absolutePath}.backup-${Date.now()}`).
EditDone ==
  /\ edit.pc \in {"returned", "thrown"}
  /\ edit' = NoEdit
  /\ EditFrame

EditNext ==
  \/ EditFile
  \/ CreateBackup
  \/ ReadOriginal
  \/ ApplyEdit
  \/ Validate
  \/ WriteNew
  \/ CleanUp
  \/ Catch
  \/ EditDone
EditSpec == Init /\ [][EditNext]_vars

\* C30 (as stated): editFile is all-or-nothing: whenever it throws, the
\* content of the target file is what it was before the call; when it
\* succeeds without keepBackup, no backup file is left.
C30_EditAllOrNothing ==
  /\ edit.pc = "thrown" => edit.target = "old"
  /\ (edit.pc = "returned" /\ ~edit.options.keepBackup) => edit.backup = "none"
\* ------------------------------------------------------------ the session
\* The mount effect (lines 692-700) restores stats from localStorage, where
\* the effect of lines 704-706 saved them in an earlier session; the history
\* is not saved and starts empty. The stats an earlier session can have
\* saved: up to MaxSaved attempts, some of them successes.
MaxSaved == 1
SavedStats ==
  {st \in [totalAttempts : 0..MaxSaved, totalSuccesses : 0..MaxSaved] :
     st.totalSuccesses <= st.totalAttempts}

\* The component after its mount effects.
SessionInit ==
  /\ agentState = [status |-> "idle", attempts |-> 0, reward |-> 0,
                   successCount |-> Undefined, episode |-> 1]
  /\ isRunning = FALSE
  /\ trainingProgress = 0
  /\ autoContinue = TRUE
  /\ maxAttempts = InitialMaxAttempts * Scale
  /\ strictMode = TRUE
  /\ verificationCmd = ""
  /\ workspaceFolder = InitialWorkspace
  /\ stats \in SavedStats
  /\ attemptHistory = <<>>
  /\ pc = "idle"
  /\ cfg = [autoContinue |-> TRUE, maxAttempts |-> InitialMaxAttempts * Scale,
            strictMode |-> TRUE, workspaceFolder |-> InitialWorkspace]
  /\ verifyCmd = ""
  /\ attempt = 0
  /\ solved = FALSE
  /\ lastFailureSummary = <<>>
  /\ toolCalls = <<>>
  /\ toolIdx = 0
  /\ procOk = "none"
  /\ nCollab = 0
  /\ nFailed = 0
  /\ nUnknown = 0
  /\ prompt = NoPrompt
  /\ failureText = <<>>
  /\ verdicts = <<>>
  /\ lastLLM = "none"
  /\ nModel = 0
  /\ nVerify = 0
  /\ nInvalid = 0
  /\ nToolless = 0
  /\ exit = "none"
  /\ added = NoStats
  /\ rewardAtStart = 0
  /\ trail = <<>>
  /\ active = 0
  /\ issued = <<>>
  /\ cwds = {}
  /\ pending = <<>>
  /\ probe = <<>>
  /\ response = <<>>
  /\ extracted = <<>>
  /\ generatedFiles = <<>>
  /\ edit = NoEdit
  /\ savedStats = stats
  /\ command = "task"
  /\ selectedModels = "model"
  /\ toasts = 0
  /\ server = NoRequest("none")

SessionSpec == SessionInit /\ [][Next]_vars

Successes(history) == Cardinality({i \in DOMAIN history : history[i].success})

\* C31: in every reachable state totalSuccesses <= totalAttempts; in a session
\* that started with empty stats the history has totalAttempts entries, of
\* which totalSuccesses are successes, however runs and resets interleave.
C31_StatsConsistent ==
  /\ stats.totalSuccesses <= stats.totalAttempts
  /\ savedStats = NoStats =>
       /\ Len(attemptHistory) = stats.totalAttempts
       /\ Successes(attemptHistory) = stats.totalSuccesses

\* A run of a session that started empty has ended with a failed and a
\* passed verification in the history.
C31_Witness ==
  /\ savedStats = NoStats
  /\ Len(attemptHistory) >= 2
  /\ Successes(attemptHistory) = 1
  /\ pc = "done"

\* processAgentResponse returns { ok: true } in this step: from the model's
\* reply when it held no tool call, else from the last call of the batch.
ProcessedOk ==
  /\ \/ pc = "llm" /\ lastLLM' = "text"
     \/ pc = "tools"
  /\ pc' \in {"verify", "done"}
  /\ nInvalid' = nInvalid
  /\ exit' # "fatal"

\* The verification request of the attempt settles with a reply.
Verified == pc = "verify" /\ Len(verdicts') = Len(verdicts) + 1

\* C32 (as stated): in every attempt whose response processing reports ok the
\* verification is executed.
C32_VerifiedWheneverOk ==
  [][ProcessedOk => (pc' = "verify" /\ nVerify' = nVerify + 1)]_vars

\* C32 (amended): in every attempt whose response processing reports ok the
\* verification is executed when the run has a verification command, and the
\* run ends unverified when it has none; a verification's result alone
\* decides success, whatever the attempt's tool calls did: a pass ends the run
\* solved with reward + 1, anything else leaves it unsolved.
C32_VerifiedWhenCommand ==
  [][/\ ProcessedOk =>
          IF verifyCmd # ""
          THEN pc' = "verify" /\ nVerify' = nVerify + 1 /\ ~solved'
          ELSE pc' = "done" /\ exit' = "noverify" /\ ~solved' /\ nVerify' = nVerify
     /\ Verified =>
          LET last == verdicts'[Len(verdicts')] IN
          /\ last.attempt = attempt
          /\ solved' <=> last.result = "pass"
          /\ solved' => /\ pc' = "done"
                        /\ agentState'.reward = agentState.reward + 1]_vars

\* With strict mode off, a run whose only response held no tool call has
\* ended as a verified success.
C32_Witness ==
  /\ Ended /\ solved /\ ~cfg.strictMode
  /\ attempt = 1 /\ nToolless = 1
  /\ VerdictsAre(<<"pass">>)

\* C33: a verification request that throws (the fetch rejects) ends the run as
\* a fatal error: no retry even with auto-continue on and budget left, no
\* history entry, no counter update; a reply with success false, a non-OK
\* status or a body that does not parse is a failed verification: it is
\* recorded in the history and the counters and is retried under the
\* auto-continue and budget rule.
C33_ThrownVerificationFatal ==
  [][/\ \A h \in ShellResponses :
          /\ Verdict(postJSON(h)) = "thrown" <=> h.rejects
          /\ (~h.rejects /\ (~h.ok \/ ~h.parses \/ ~h.success)) =>
               Verdict(postJSON(h)) = "fail"
     /\ Verified =>
          LET last == verdicts'[Len(verdicts')] IN
          /\ last.result = "thrown" =>
               /\ pc' = "done" /\ exit' = "fatal" /\ ~solved'
               /\ attempt' = attempt /\ nModel' = nModel
               /\ stats' = stats /\ attemptHistory' = attemptHistory
               /\ added' = added
          /\ last.result = "fail" =>
               /\ attemptHistory' = Append(attemptHistory,
                                           [attempt |-> attempt, success |-> FALSE])
               /\ stats' = [stats EXCEPT !.totalAttempts = @ + 1]
               /\ IF cfg.autoContinue /\ attempt * Scale < cfg.maxAttempts
                  THEN pc' = "llm" /\ attempt' = attempt + 1
                  ELSE pc' = "done" /\ exit' = "stopped"]_vars

\* The first verification of a run threw with auto-continue on and budget
\* left: the run has ended, nothing recorded.
C33_Witness ==
  /\ Ended /\ exit = "fatal"
  /\ cfg.autoContinue /\ attempt = 1 /\ cfg.maxAttempts >= 2 * Scale
  /\ VerdictsAre(<<"thrown">>)
  /\ added = NoStats /\ attemptHistory = <<>>

\* C34 (as stated): reward equals successCount in every reachable state, a run
\* raises reward by at most 1, and reward never exceeds the number of
\* completed runs (episode - 1).
C34_RewardIsSuccessCount ==
  /\ agentState.reward = agentState.successCount
  /\ pc # "idle" => agentState.reward - rewardAtStart \in {0, 1}
  /\ agentState.reward <= agentState.episode - 1

\* C34 (amended): successCount is absent until the first verified success and
\* equals reward from then on, so that reward equals successCount read as the
\* code reads it (absent as 0); a run raises reward by at most 1, and reward
\* never exceeds the number of completed runs (episode - 1).
C34_RewardIsSuccessCountRead ==
  /\ IF agentState.reward = 0
     THEN agentState.successCount = Undefined
     ELSE agentState.successCount = agentState.reward
  /\ pc # "idle" => agentState.reward - rewardAtStart \in {0, 1}
  /\ agentState.reward <= agentState.episode - 1

\* Two runs have ended, both verified successes.
C34_Witness ==
  /\ Ended /\ solved
  /\ agentState.reward = 2 /\ agentState.successCount = 2
  /\ agentState.episode = 3 /\ rewardAtStart = 1

\* C35: a write_file call whose content is the empty string is treated like
\* one whose content is missing: executeToolCall makes no collaborator request
\* and logs no failure for it (so no write request ever carries an empty
\* content), the attempt is not made invalid and the batch goes on.
C35_EmptyContentSkipped ==
  [][(/\ pc = "tools" /\ toolIdx < Len(toolCalls) /\ toolIdx' # toolIdx
      /\ AtCall.tool = "write_file" /\ AtCall.args["content"] = "") =>
       /\ pc' \in {"tools", "verify"} => nCollab' = nCollab /\ nFailed' = nFailed
       /\ nInvalid' = nInvalid
       /\ exit' \in {"none", "noverify"}
       /\ procOk' # "fail"
       /\ issued' \in {<<>>, Append(issued, AtCall)}
       /\ toolIdx + 1 < Len(toolCalls) =>
            /\ pc' = "tools" /\ toolCalls' = toolCalls
            /\ toolIdx' = toolIdx + 1
       /\ toolIdx + 1 = Len(toolCalls) =>
            pc' = (IF verifyCmd = "" THEN "done" ELSE "verify")]_vars

\* A batch of one write_file with a path and the empty content has been
\* processed: no request, no failure, and the verification is under way.
C35_Witness ==
  /\ pc = "verify" /\ toolIdx = 1
  /\ toolCalls = <<Call("write_file", {"path"}, {"content"})>>
  /\ issued = toolCalls
  /\ nCollab = 0 /\ nFailed = 0 /\ procOk = "ok"

\* ------------------------------------------------------------ the request
\* The component after its construction: no command typed (useState(''),
\* line 670), no model selected (useState({}), line 683).
RequestInit ==
  /\ agentState = [status |-> "idle", attempts |-> 0, reward |-> 0,
                   successCount |-> Undefined, episode |-> 1]
  /\ isRunning = FALSE
  /\ trainingProgress = 0
  /\ autoContinue = TRUE
  /\ maxAttempts = InitialMaxAttempts * Scale
  /\ strictMode = TRUE
  /\ verificationCmd = ""
  /\ workspaceFolder = InitialWorkspace
  /\ stats = NoStats
  /\ attemptHistory = <<>>
  /\ pc = "idle"
  /\ cfg = [autoContinue |-> TRUE, maxAttempts |-> InitialMaxAttempts * Scale,
            strictMode |-> TRUE, workspaceFolder |-> InitialWorkspace]
  /\ verifyCmd = ""
  /\ attempt = 0
  /\ solved = FALSE
  /\ lastFailureSummary = <<>>
  /\ toolCalls = <<>>
  /\ toolIdx = 0
  /\ procOk = "none"
  /\ nCollab = 0
  /\ nFailed = 0
  /\ nUnknown = 0
  /\ prompt = NoPrompt
  /\ failureText = <<>>
  /\ verdicts = <<>>
  /\ lastLLM = "none"
  /\ nModel = 0
  /\ nVerify = 0
  /\ nInvalid = 0
  /\ nToolless = 0
  /\ exit = "none"
  /\ added = NoStats
  /\ rewardAtStart = 0
  /\ trail = <<>>
  /\ active = 0
  /\ issued = <<>>
  /\ cwds = {}
  /\ pending = <<>>
  /\ probe = <<>>
  /\ response = <<>>
  /\ extracted = <<>>
  /\ generatedFiles = <<>>
  /\ edit = NoEdit
  /\ savedStats = NoStats
  /\ command = ""
  /\ selectedModels = "none"
  /\ toasts = 0
  /\ server = NoRequest("none")

\* The command input (1408-1414), disabled during a run.
SetCommand ==
  /\ ~isRunning /\ pc = "idle"
  /\ \E c \in {"", " ", "task"} : command' = c
  /\ UNCHANGED <<settings, ledger, batch, loop, cfg, verifyCmd, verdicts, ghost, trace,
                 pending, parse, probe, edit, savedStats, selectedModels, toasts,
                 server>>

\* fetchModels has found models for a provider and selected the first one
\* (1296-1298), or the user has picked one (1678).
SetSelectedModels ==
  /\ selectedModels = "none" /\ pc # "done"
  /\ selectedModels' = "model"
  /\ UNCHANGED <<settings, ledger, batch, loop, cfg, verifyCmd, verdicts, ghost, trace,
                 pending, parse, probe, edit, savedStats, command, toasts,
                 server>>

MaxToasts == 2
\* The Execute button when runAgent returns up front: without a word for a
\* blank command (723), after the 'No Model Selected' toast when no model is
\* selected (726-734).
RunAgentRejected ==
  /\ ~ExecuteDisabled
  /\ pc # "done"
  /\ Rejected(command, selectedModels)
  /\ toasts < MaxToasts
  /\ toasts' = toasts + (IF command \in {"", " "} THEN 0 ELSE 1)
  /\ UNCHANGED <<settings, ledger, batch, loop, cfg, verifyCmd, verdicts, ghost, trace,
                 pending, parse, probe, edit, savedStats, command, selectedModels,
                 server>>

RequestNext ==
  \/ RunAgent
  \/ RunAgentRejected
  \/ AutoDetectReturn
  \/ CallLLMReturn
  \/ ExecuteToolCall
  \/ VerifyReturn
  \/ Return
  \/ SetCommand
  \/ SetSelectedModels

RequestSpec == RequestInit /\ [][RequestNext]_vars

\* C36: a run request made with a blank command or with no model selected
\* changes no run state: the running flag stays down, the phase stays idle,
\* episode, attempt counter and reward are unchanged, the statistics and the
\* history are unchanged, and no model or collaborator request is made.
C36_RejectedRequestNoEffect ==
  [][(/\ pc = "idle" /\ ~isRunning
      /\ command \in {"", " "} \/ selectedModels = "none"
      /\ toasts' # toasts \/ isRunning' \/ pc' # "idle") =>
       /\ ~isRunning' /\ pc' = "idle"
       /\ agentState' = agentState
       /\ attempt' = attempt
       /\ stats' = stats /\ attemptHistory' = attemptHistory
       /\ nModel' = nModel /\ nVerify' = nVerify /\ nCollab' = nCollab
       /\ cwds' = cwds /\ active' = active
       /\ trainingProgress' = trainingProgress]_vars

\* With a command typed and no model selected the Execute button was pressed:
\* the toast was shown, and the component is as it was constructed.
C36_Witness ==
  /\ toasts = 1 /\ command = "task" /\ selectedModels = "none"
  /\ pc = "idle" /\ ~isRunning
  /\ agentState = [status |-> "idle", attempts |-> 0, reward |-> 0,
                   successCount |-> Undefined, episode |-> 1]
  /\ stats = NoStats /\ attemptHistory = <<>> /\ active = 0

\* C37: auto-detection never fails a run: whatever the two reads come back
\* with, the run goes on to its first attempt. An error while probing (a read
\* that throws, a package.json that does not parse) yields no command, for an
\* unparsable package.json even when tsconfig.json is readable; a package.json
\* that is read and declares neither a test nor a build script leaves the
\* choice to the tsconfig.json read.
C37_DetectionNeverFails ==
  [][(pc = "detect" /\ pc' # "detect" /\ probe # <<>>) =>
       LET p == probe[1] IN
       /\ pc' = "llm" /\ isRunning' /\ exit' = "none"
       /\ attempt' = 1 /\ nModel' = 1
       /\ p.pkg \in {"thrown", "unparsable"} => verifyCmd' = ""
       /\ (p.pkg \in {"failed", "noScripts"} /\ p.tsc = "thrown") => verifyCmd' = ""
       /\ p.pkg = "noScripts" =>
            verifyCmd' = (IF p.tsc = "ok" THEN "npx tsc -noEmit" ELSE "")
       /\ verifyCmd' = "" => verificationCmd' = verificationCmd]_vars

\* The detection of the session's first run found no command, and the run is
\* at its first model call.
C37_Witness ==
  /\ pc = "llm" /\ attempt = 1 /\ agentState.episode = 1
  /\ verifyCmd = "" /\ verificationCmd = ""
  /\ isRunning /\ cwds # {}

\* ------------------------------------------------------- the write endpoint
\* The dev server's handler of POST /api/files/write, one step for each await.
\* The request names a path or not, carries a string content ("a", "b") or
\* none, and overwrite true or false; its body is JSON or is not.
WriteFrame ==
  UNCHANGED <<settings, ledger, batch, loop, cfg, verifyCmd, verdicts, ghost, trace,
              pending, parse, probe, edit, savedStats, form>>

\* The body is read and parsed, path and content are tested.
WriteReceive ==
  /\ server.pc = "idle"
  /\ \E json \in BOOLEAN, p \in BOOLEAN, c \in {"a", "b", "missing"}, o \in BOOLEAN :
       server' = IF ~json
                 THEN [server EXCEPT !.pc = "replied", !.reply = "failed"]
                 ELSE [server EXCEPT
                         !.path = p, !.content = c, !.overwrite = o,
                         !.before = server.file,
                         !.pc = IF p /\ c # "missing" THEN "access" ELSE "replied",
                         !.reply = IF p /\ c # "missing" THEN "none" ELSE "required"]
  /\ WriteFrame

\* try { await fs.access(full); if (!overwrite) throw new Error('File exists') }
\* catch (_) {}: the access fails when the file does not exist (or cannot be
\* reached); the error thrown for an existing file is caught by the same
\* catch, which drops it.
WriteAccess ==
  /\ server.pc = "access"
  /\ \E a \in CallOutcomes :
       /\ server.file = "none" => a = "throws"
       /\ server' = [server EXCEPT !.pc = "mkdir"]
  /\ WriteFrame

\* await fs.mkdir(path.dirname(full), { recursive: true })
WriteMkdir ==
  /\ server.pc = "mkdir"
  /\ \E m \in CallOutcomes :
       server' = IF m = "ok" THEN [server EXCEPT !.pc = "write"]
                 ELSE [server EXCEPT !.pc = "replied", !.reply = "failed"]
  /\ WriteFrame

\* await fs.writeFile(full, content, 'utf-8'), then the reply.
WriteWriteFile ==
  /\ server.pc = "write"
  /\ \E w \in WriteOutcomes :
       server' = [server EXCEPT
                    !.file = Written(server.file, server.content, w),
                    !.pc = "replied",
                    !.reply = IF w = "ok" THEN "success" ELSE "failed"]
  /\ WriteFrame

\* The reply is sent: { success: true, path } or 400 { success: false, error }.
WriteRespond ==
  /\ server.pc = "replied"
  /\ server' = NoRequest(server.file)
  /\ WriteFrame

WriteNext ==
  \/ WriteReceive
  \/ WriteAccess
  \/ WriteMkdir
  \/ WriteWriteFile
  \/ WriteRespond

WriteSpec == Init /\ [][WriteNext]_vars

\* C38 (as stated): a write request with overwrite false for a path that
\* exists is rejected with 'File exists' and leaves the file as it was; with
\* overwrite true, or for a path that does not exist, the content is written
\* and success reported (unless the file system fails the request).
C38_OverwriteGuard ==
  (server.pc = "replied" /\ server.path /\ server.content # "missing") =>
    IF ~server.overwrite /\ server.before # "none"
    THEN server.reply = "exists" /\ server.file = server.before
    ELSE /\ server.reply \in {"success", "failed"}
         /\ server.reply = "success" => server.file = server.content
====
